---- MODULE Spec2Model ----
(***************************************************************************)
(* Batch orchestration and CSV consolidation of the MIR automation         *)
(* framework: FileManager (automation/file-manager.js), UploadWorkflow and *)
(* CSVMerger, and the `upload` command of automation/batch-processor.js.   *)
(***************************************************************************)
EXTENDS Integers, Sequences, FiniteSets, TLC

\* ------------------------------------------------------------------------
\* Bounds of the model
\* ------------------------------------------------------------------------
MaxFiles == 2          \* audio files in the directory of a run
MaxFailingFiles == 10  \* the same, for a driver that fails every upload
MaxResumeFiles == 2    \* the same, for a run that is interrupted and resumed
MaxRuns == 2           \* processes started on the same directory
MaxRunFiles == 2       \* audio files in the directory of the first of several runs
MaxBatchSize == 2      \* --batch-size option
MaxOutstanding == 1    \* state-file writes started and not yet finished
MaxOverlap == 2        \* the same in the runs on a slow disk
MaxPlanLen == 4        \* length of a file list handed to createBatches
MaxPlanSize == 3       \* batch size handed to createBatches
MaxArtifacts == 2      \* batch artifacts in the merge input directory
MaxRows == 1           \* rows of a generated batch artifact
MaxSuffix == 1         \* largest number among the result files found
MaxFormatTail == 6
MaxQueueLen == 3
MaxWaitFiles == 2       \* files of the batch a completion wait watches
MaxTimeoutPolls == 12   \* timeout of a completion wait, in check intervals
MaxPageBatch == 3
MaxPageUploads == 2
MaxMergeRuns == 3      \* merge runs on the same output directory
MaxDiscovered == 3     \* artifacts in a directory that is only discovered

\* ------------------------------------------------------------------------
\* Program constants
\* ------------------------------------------------------------------------
batchMaxAttempts == 3          \* maxAttempts of every batch record
maxConsecutiveFailures == 3    \* circuit-breaker threshold
maxMergeRetries == 3           \* attempts of the merge workflow
configBatchSize == 30          \* FileManager's default batchSize
barLength == 40                \* width of the progress bar
analysisProgressCheckInterval == 5000  \* ms between two polls of the page
doubleCheckDelay == 2000       \* ms before the loader is looked at again
maxStuckIterations == 10       \* polls without a new track before giving up
interBatchDelay == 30000       \* ms waited between two batches

\* ------------------------------------------------------------------------
\* JavaScript values: null, Date objects and the ISO strings that
\* JSON.stringify turns Dates into.
\* ------------------------------------------------------------------------
Null == <<"null">>
Date(ms) == <<"date", ms>>
Str(s) == <<"str", s>>

\* Date.prototype.toJSON as applied by JSON.stringify: a Date becomes its
\* ISO string (millisecond precision), everything else is written as it is.
toJSON(v) == IF v[1] = "date" THEN <<"iso", v[2]>> ELSE v

\* new Date(x) for x an ISO string read back from JSON (or a Date).
newDate(v) == IF v[1] = "iso" THEN <<"date", v[2]>> ELSE v

\* JavaScript truthiness of a value that is null, a Date or a non-empty string
truthy(v) == v # Null

Min(a, b) == IF a < b THEN a ELSE b

Range(s) == {s[i] : i \in DOMAIN s}

\* Array.prototype.slice(from, to) on a 0-based array held as a sequence
slice(arr, from, to) == SubSeq(arr, from + 1, Min(to, Len(arr)))

\* Set.prototype.add / forEach(add): a JavaScript Set keeps insertion order
setAdd(set, x) == IF x \in Range(set) THEN set ELSE Append(set, x)

RECURSIVE setAddAll(_, _)
setAddAll(set, arr) ==
    IF arr = <<>> THEN set ELSE setAddAll(setAdd(set, Head(arr)), Tail(arr))

\* new Set(array)
newSet(arr) == setAddAll(<<>>, arr)

\* ------------------------------------------------------------------------
\* FileManager
\* ------------------------------------------------------------------------
FreshFileManager ==
    [discoveredFiles |-> <<>>,
     batches |-> <<>>,
     processedFiles |-> <<>>,
     failedFiles |-> <<>>,
     processingState |-> [totalFiles |-> 0, processedCount |-> 0,
                          failedCount |-> 0, currentBatch |-> 0,
                          startTime |-> Null, lastSaveTime |-> Null]]

newBatch(id, files) ==
    [id |-> id, files |-> files, status |-> "pending", attempts |-> 0,
     maxAttempts |-> batchMaxAttempts, startTime |-> Null, endTime |-> Null,
     error |-> Null]

\* createBatchesLoop with a slice that ends one element early
RECURSIVE createBatchesLoopShortSlice(_, _, _, _)
createBatchesLoopShortSlice(filesToBatch, size, i, acc) ==
    IF i < Len(filesToBatch)
    THEN createBatchesLoopShortSlice(filesToBatch, size, i + size,
             Append(acc, newBatch(Len(acc) + 1,
                                  slice(filesToBatch, i, i + size - 1))))
    ELSE acc

\* the for loop of createBatches: i runs from 0 in steps of size
RECURSIVE createBatchesLoop(_, _, _, _)
createBatchesLoop(filesToBatch, size, i, acc) ==
    IF i < Len(filesToBatch)
    THEN createBatchesLoop(filesToBatch, size, i + size,
             Append(acc, newBatch(Len(acc) + 1, slice(filesToBatch, i, i + size))))
    ELSE acc

\* createBatches(files, batchSize); a null files argument is Null, a falsy
\* batchSize (null, 0, NaN) is 0.
createBatches(fm, files, batchSize) ==
    LET filesToBatch == IF files = Null THEN fm.discoveredFiles ELSE files
        size == IF batchSize = 0 THEN configBatchSize ELSE batchSize
    IN [fm EXCEPT !.batches = createBatchesLoop(filesToBatch, size, 0, <<>>),
                  !.processingState.totalFiles = Len(filesToBatch),
                  !.processingState.currentBatch = 0]

\* Array.prototype.find over the batches: index of the first match, 0 if none
findIndex(batches, P(_)) ==
    IF \E i \in DOMAIN batches : P(batches[i])
    THEN CHOOSE i \in DOMAIN batches :
            /\ P(batches[i])
            /\ \A j \in 1..(i - 1) : ~P(batches[j])
    ELSE 0

isPending(b) == b.status = "pending"
isRetryableForever(b) == b.status = "failed"

isRetryableOnce(b) == b.status = "failed" /\ b.attempts < 2

isRetryable(b) == b.status = "failed" /\ b.attempts < b.maxAttempts

getNextBatchPendingOnly(batches) == findIndex(batches, isPending)

getNextBatchAnyFailed(batches) ==
    LET nextBatch == findIndex(batches, isPending)
    IN IF nextBatch # 0 THEN nextBatch ELSE findIndex(batches, isRetryableForever)

getNextBatchRetryFirst(batches) ==
    LET retryableBatch == findIndex(batches, isRetryable)
    IN IF retryableBatch # 0 THEN retryableBatch
       ELSE findIndex(batches, isPending)

\* getNextBatch: index of the batch returned, 0 for null
getNextBatch(batches) ==
    LET nextBatch == findIndex(batches, isPending)
    IN IF nextBatch # 0 THEN nextBatch ELSE findIndex(batches, isRetryable)

findById(batches, batchId) ==
    LET hasId(b) == b.id = batchId IN findIndex(batches, hasId)

markBatchStartedUncounted(fm, batchId, now) ==
    LET i == findById(fm.batches, batchId)
    IN IF i = 0 THEN fm
       ELSE [fm EXCEPT !.batches[i].status = "processing",
                       !.batches[i].startTime = Date(now),
                       !.processingState.startTime =
                            IF truthy(@) THEN @ ELSE Date(now)]

markBatchStarted(fm, batchId, now) ==
    LET i == findById(fm.batches, batchId)
    IN IF i = 0 THEN fm
       ELSE [fm EXCEPT !.batches[i].status = "processing",
                       !.batches[i].startTime = Date(now),
                       !.batches[i].attempts = @ + 1,
                       !.processingState.startTime =
                            IF truthy(@) THEN @ ELSE Date(now)]

\* markBatchCompleted counting one per batch instead of one per file
markBatchCompletedCountsBatches(fm, batchId, processedFiles, now) ==
    LET i == findById(fm.batches, batchId)
    IN IF i = 0 THEN fm
       ELSE [fm EXCEPT !.batches[i].status = "completed",
                       !.batches[i].endTime = Date(now),
                       !.processedFiles = setAddAll(@, processedFiles),
                       !.processingState.processedCount = @ + 1]

\* a completion that leaves the batch in status processing
markBatchCompletedStillProcessing(fm, batchId, processedFiles, now) ==
    LET i == findById(fm.batches, batchId)
    IN IF i = 0 THEN fm
       ELSE [fm EXCEPT !.batches[i].endTime = Date(now),
                       !.processedFiles = setAddAll(@, processedFiles),
                       !.processingState.processedCount = @ + Len(processedFiles)]

markBatchCompleted(fm, batchId, processedFiles, now) ==
    LET i == findById(fm.batches, batchId)
    IN IF i = 0 THEN fm
       ELSE [fm EXCEPT !.batches[i].status = "completed",
                       !.batches[i].endTime = Date(now),
                       !.processedFiles = setAddAll(@, processedFiles),
                       !.processingState.processedCount = @ + Len(processedFiles)]

\* a failure that keeps no message with the batch
markBatchFailedNoMessage(fm, batchId, error, failedFiles, now) ==
    LET i == findById(fm.batches, batchId)
    IN IF i = 0 THEN fm
       ELSE [fm EXCEPT !.batches[i].status = "failed",
                       !.batches[i].endTime = Date(now),
                       !.failedFiles = setAddAll(@, failedFiles),
                       !.processingState.failedCount = @ + Len(failedFiles)]

markBatchFailed(fm, batchId, error, failedFiles, now) ==
    LET i == findById(fm.batches, batchId)
    IN IF i = 0 THEN fm
       ELSE [fm EXCEPT !.batches[i].status = "failed",
                       !.batches[i].endTime = Date(now),
                       !.batches[i].error = Str(error),
                       !.failedFiles = setAddAll(@, failedFiles),
                       !.processingState.failedCount = @ + Len(failedFiles)]

\* a state document without the file-path sets
saveStateDocWithoutSets(fm, now) ==
    [processingState |-> [fm.processingState EXCEPT
                             !.startTime = toJSON(@),
                             !.lastSaveTime = toJSON(@)],
     batches |-> [i \in DOMAIN fm.batches |->
                     [fm.batches[i] EXCEPT !.startTime = toJSON(@),
                                           !.endTime = toJSON(@)]],
     processedFiles |-> <<>>,
     failedFiles |-> <<>>,
     lastSaved |-> toJSON(Date(now))]

\* The document _saveState hands to fs.writeJson.  JSON.stringify runs when
\* writeJson is called, so the document is the state at the call.
saveStateDoc(fm, now) ==
    [processingState |-> [fm.processingState EXCEPT
                             !.startTime = toJSON(@),
                             !.lastSaveTime = toJSON(@)],
     batches |-> [i \in DOMAIN fm.batches |->
                     [fm.batches[i] EXCEPT !.startTime = toJSON(@),
                                           !.endTime = toJSON(@)]],
     processedFiles |-> fm.processedFiles,
     failedFiles |-> fm.failedFiles,
     lastSaved |-> toJSON(Date(now))]

\* loadBatchDates that forgets to revive endTime
loadBatchDatesStartOnly(b) ==
    [b EXCEPT !.startTime = IF truthy(@) THEN newDate(@) ELSE @]

loadBatchDates(b) ==
    [b EXCEPT !.startTime = IF truthy(@) THEN newDate(@) ELSE @,
              !.endTime = IF truthy(@) THEN newDate(@) ELSE @]

\* loadState on a FileManager fm when the state file holds doc
loadState(fm, doc) ==
    [fm EXCEPT
        !.processingState =
            [doc.processingState EXCEPT
                !.startTime = IF truthy(@) THEN newDate(@) ELSE @],
        !.batches = [i \in DOMAIN doc.batches |-> loadBatchDates(doc.batches[i])],
        !.processedFiles = newSet(doc.processedFiles),
        !.failedFiles = newSet(doc.failedFiles)]


\* _saveState returns without writing when progress tracking is off
enableProgressTracking == TRUE
\* loadState returns false without reading when resume is off
resumeFromFailure == TRUE

\* ------------------------------------------------------------------------
\* State
\* ------------------------------------------------------------------------
VARIABLES
    dir,                  \* validated audio files of the directory, in discovery order
    optBatchSize,         \* options.batchSize of the run
    strict,               \* options.strict of the run
    driver,               \* what the analysis engine driver can do in this run
    fm,                   \* the FileManager object of the running process
    stateFile,            \* file-processing-state.json: <<>> or <<document>>
    pendingWrites,        \* documents handed to fs.writeJson, not yet on disk
    clock,                \* the time new Date() returns
    pc,                   \* where the upload command is
    batch,                \* index of the batch held by executeBatchProcessing, 0 if none
    consecutiveFailures,  \* local of executeBatchProcessing
    workflowStats,        \* UploadWorkflow.workflowStats
    analysed,             \* batchResult.processedFiles of the batch in flight
    stopReason,           \* how executeBatchProcessing ended
    attemptLog,           \* batch attempts of this process, oldest first
    run,                  \* number of processes started so far
    loadedCompleted,      \* ids of the batches completed in the state loadState restored
    workflowResult,       \* what executeFullWorkflow returned: <<>> or <<result>>
    autoMerge,            \* mergeResult of executeUploadWorkflow: <<>> or <<result>>
    batchCsvDir,          \* files of csv_exports/batch_csvs
    resultsDir,           \* files of the results directory
    crash,                \* the last crash in the middle of a state save, if any
    loadResult,           \* what loadState returned in this process
    planFiles, planSize, planResult,  \* a createBatches call on its own
    page,                 \* module state of the analysis page (main.js)
    automation,           \* what the BrowserAutomation did with the page
    fmtInput,             \* the value handed to formatBPM or formatMoodValue
    fmtOutput,            \* the field it returned
    fmtPc,                \* which of the two was called, if any
    ui,                   \* what the page shows during the analysis of a batch
    wait,                 \* locals of a waitForAnalysisComplete call
    batchDir,             \* batch artifacts in the input directory, oldest first
    duplicateStrategy,    \* config.duplicateStrategy of the CSVMerger
    cleanupBatchFiles,    \* config.cleanupBatchFiles of the CSVMerger
    mpc,                  \* where mergeCSVFiles is
    batchFiles,           \* what discoverBatchFiles returned
    validationResults,    \* what validateBatchFiles returned
    mergedData,           \* what consolidateCSVData returned
    outputFile,           \* the merged file on disk: <<>> or <<contents>>
    mergeStats,           \* CSVMerger.mergeStats
    mergeResult,          \* what mergeCSVFiles returned
    outputTemplate,       \* config.outputFilename of the CSVMerger
    outputDir,            \* names of the files in config.outputDirectory
    outputLog,            \* the files the merge runs wrote, oldest first
    mergeRun,             \* number of merge runs started so far
    mergeClock            \* the time new Date() returns in the merger

endVars == <<workflowResult, autoMerge, batchCsvDir, resultsDir, crash, loadResult>>
orchVars == <<dir, optBatchSize, strict, driver, fm, stateFile, pendingWrites, clock,
              pc, batch, consecutiveFailures, workflowStats, analysed,
              stopReason, attemptLog, run, loadedCompleted, endVars>>
pageVars == <<page, automation>>
formatVars == <<fmtInput, fmtOutput, fmtPc>>
waitVars == <<ui, wait>>
planVars == <<planFiles, planSize, planResult, pageVars, formatVars, waitVars>>
\* the same without the BrowserAutomation
planRest == <<planFiles, planSize, planResult, page, formatVars, waitVars>>
namingVars == <<outputTemplate, outputDir, outputLog, mergeRun, mergeClock>>
mergeVars == <<batchDir, duplicateStrategy, cleanupBatchFiles,
               mpc, batchFiles, validationResults,
               mergedData, outputFile, mergeStats, mergeResult, namingVars>>
vars == <<orchVars, planVars, mergeVars>>

FilePaths == <<"f01", "f02", "f03", "f04", "f05", "f06", "f07", "f08",
               "f09", "f10", "f11", "f12">>

\* the scenario of the design document: 7 files in batches of 3
ScenarioConfig == <<7, 3, "any">>

\* <<number of files, batch size, driver>> of a run
RunConfigs ==
    {<<n, s, "any">> : n \in 0..MaxFiles, s \in 1..MaxBatchSize}

FailingConfigs ==
    {<<n, 1, "fails_every_upload">> : n \in 0..MaxFailingFiles}

ResumeConfigs ==
    {<<n, 1, "any">> : n \in 0..MaxResumeFiles}

FreshWorkflowStats ==
    [totalBatches |-> 0, processedBatches |-> 0, failedBatches |-> 0,
     totalFiles |-> 0, processedFiles |-> 0, failedFiles |-> 0,
     csvDownloads |-> <<>>]

\* main.js after window.onload: empty queue, loader disabled
FreshPage ==
    [filesQueue |-> <<>>, isProcessing |-> FALSE, currentAnalysingFile |-> <<>>,
     analysedTracks |-> <<>>, loaderActive |-> FALSE, step |-> "idle",
     modelsReady |-> {}]   \* inference workers whose model is loaded

\* the BrowserAutomation after launch
FreshAutomation ==
    [uploads |-> 0, monitoring |-> FALSE, batches |-> <<>>,
     uploadsSinceReset |-> 0,   \* uploadFiles calls since the last reset call
     uploadsSinceReload |-> 0,  \* uploadFiles calls since the page was loaded
     resets |-> 0,              \* resetPageForNextBatch calls
     lastReset |-> "none",      \* how the last of them ended
     slept |-> 0]               \* ms of inter-batch delay waited

PageIdle ==
    /\ page = FreshPage
    /\ automation = FreshAutomation

\* the loader and the track list of the page, and the files of the batch
\* it has not analysed yet
FreshUi ==
    [loaderActive |-> FALSE, loaderDisplay |-> "", tracks |-> 0, left |-> 0,
     errors |-> FALSE]

\* no waitForAnalysisComplete call yet
FreshWait ==
    [pc |-> "idle", timeout |-> 0, elapsed |-> 0, lastTrackCount |-> 0,
     stuckCounter |-> 0, exit |-> "none"]

WaitIdle ==
    /\ ui = FreshUi
    /\ wait = FreshWait

\* a JavaScript value handed to a formatter; num counts ten-thousandths
jsValue(type, num) == [type |-> type, num |-> num]

\* a CSV field: sign, digits before the point, digits after it; '' has none
field(neg, int, frac) == [neg |-> neg, int |-> int, frac |-> frac]

emptyField == field(FALSE, <<>>, <<>>)

FormatIdle ==
    /\ fmtInput = jsValue("undefined", 0)
    /\ fmtOutput = emptyField
    /\ fmtPc = "idle"

PlanIdle ==
    /\ planFiles = <<>>
    /\ planSize = 1
    /\ planResult = <<>>
    /\ PageIdle
    /\ FormatIdle
    /\ WaitIdle

FreshMergeStats ==
    [batchFilesFound |-> 0, batchFilesProcessed |-> 0,
     totalRowsProcessed |-> 0, duplicatesFound |-> 0,
     duplicatesResolved |-> 0, validationErrors |-> 0,
     processingErrors |-> 0]

NoValidation == [validFiles |-> <<>>, invalidFiles |-> <<>>, schemaErrors |-> <<>>]

TimestampTemplate == "music_analysis_complete_{timestamp}.csv"
NumberedTemplate == "music_analysis_results_{number:02d}.csv"

\* a merger with the default output name and an empty output directory
NamingIdle ==
    /\ outputTemplate = TimestampTemplate
    /\ outputDir = {}
    /\ outputLog = <<>>
    /\ mergeRun = 1
    /\ mergeClock = 1

MergeIdle ==
    /\ NamingIdle
    /\ batchDir = <<>>
    /\ duplicateStrategy = "keep_first"
    /\ cleanupBatchFiles = FALSE
    /\ mpc = "idle"
    /\ batchFiles = <<>>
    /\ validationResults = NoValidation
    /\ mergedData = <<>>
    /\ outputFile = <<>>
    /\ mergeStats = FreshMergeStats
    /\ mergeResult = <<>>

\* the state before the upload command runs, options.strict drawn from
\* strictOptions
OrchInitWith(configs, strictOptions) ==
    /\ \E cfg \in configs :
          /\ dir = SubSeq(FilePaths, 1, cfg[1])
          /\ optBatchSize = cfg[2]
          /\ driver = cfg[3]
    /\ strict \in strictOptions
    /\ fm = FreshFileManager
    /\ stateFile = <<>>
    /\ pendingWrites = {}
    /\ clock = 1
    /\ pc = "idle"
    /\ batch = 0
    /\ consecutiveFailures = 0
    /\ workflowStats = FreshWorkflowStats
    /\ analysed = 0
    /\ stopReason = "none"
    /\ attemptLog = <<>>
    /\ run = 1
    /\ loadedCompleted = {}
    /\ workflowResult = <<>>
    /\ autoMerge = <<>>
    /\ batchCsvDir = {}
    /\ resultsDir = {}
    /\ crash = <<>>
    /\ loadResult = "none"

\* the same without --strict
OrchInit(configs) == OrchInitWith(configs, {FALSE})

Init == OrchInit(RunConfigs \cup FailingConfigs \cup {ScenarioConfig}) /\ PlanIdle /\ MergeIdle

\* ------------------------------------------------------------------------
\* UploadWorkflow
\* ------------------------------------------------------------------------

\* discoverFiles: the validated files of the directory
discoverFiles(f, directoryPath) == [f EXCEPT !.discoveredFiles = directoryPath]

\* prepareFilesForProcessing: <<FileManager, workflowStats>> afterwards
prepareFilesForProcessing(f, stats, directoryPath, batchSize) ==
    LET d == discoverFiles(f, directoryPath)
    IN IF Len(d.discoveredFiles) = 0
       THEN <<d, stats>>
       ELSE LET b == createBatches(d, Null, batchSize)
            IN <<b, [stats EXCEPT !.totalBatches = Len(b.batches),
                                  !.totalFiles = Len(b.discoveredFiles)]>>

\* displayBatchProgress builds the bar with String.prototype.repeat, which
\* throws a RangeError on a negative or infinite count
displayBatchProgressThrows(stats) ==
    IF stats.totalFiles = 0
    THEN stats.processedFiles > 0
    ELSE barLength - ((stats.processedFiles * barLength) \div stats.totalFiles) < 0

\* loopTail with the breaker comparing with > instead of >=
loopTailLateBreaker(stats, failures, isStrict) ==
    IF displayBatchProgressThrows(stats)
    THEN IF failures + 1 >= maxConsecutiveFailures /\ isStrict
         THEN [pc |-> "threw", failures |-> failures + 1, stop |-> "error",
               maintenance |-> FALSE]
         ELSE [pc |-> "loop", failures |-> failures + 1, stop |-> "none",
               maintenance |-> FALSE]
    ELSE IF failures > maxConsecutiveFailures
         THEN [pc |-> "done", failures |-> failures, stop |-> "breaker",
               maintenance |-> FALSE]
         ELSE [pc |-> "loop", failures |-> failures, stop |-> "none",
               maintenance |-> TRUE]

\* What executeBatchProcessing does after processSingleBatch returned and the
\* counters were updated: progress display, breaker check, maintenance, or
\* the catch block.  Gives the next position, counter and stop reason.
loopTail(stats, failures, isStrict) ==
    IF displayBatchProgressThrows(stats)
    THEN IF failures + 1 >= maxConsecutiveFailures /\ isStrict
         THEN [pc |-> "threw", failures |-> failures + 1, stop |-> "error",
               maintenance |-> FALSE]
         ELSE [pc |-> "loop", failures |-> failures + 1, stop |-> "none",
               maintenance |-> FALSE]
    ELSE IF failures >= maxConsecutiveFailures
         THEN [pc |-> "done", failures |-> failures, stop |-> "breaker",
               maintenance |-> FALSE]
         ELSE [pc |-> "loop", failures |-> failures, stop |-> "none",
               maintenance |-> TRUE]

\* the counter after a batch that failed although others succeeded before:
\* a total that no success clears
successKeepsCount(failures) == failures

\* consecutiveFailures = 0 in the success branch of the loop
afterSuccess(failures) == 0

\* consecutiveFailures++ in the failure branch of the loop
afterFailure(failures) == failures + 1

\* how resetPageForNextBatch can end for a driver: "reset" (reloaded and
\* ready), "reloaded_on_retry" (the second, plain reload worked) or
\* "failed" (both reloads threw)
resetOutcomes(d) ==
    IF d = "reset_fails" THEN {"reloaded_on_retry", "failed"} ELSE {"reset"}

\* browser.launch in initializeBrowserAutomation: a new page
launch(a) ==
    [a EXCEPT !.uploadsSinceReset = 0, !.uploadsSinceReload = 0,
              !.resets = 0, !.lastReset = "none", !.slept = 0]

\* browser.uploadFiles was called for a batch
uploadCalled(a) ==
    [a EXCEPT !.uploadsSinceReset = @ + 1, !.uploadsSinceReload = @ + 1]

\* an inter-batch maintenance that waits but leaves the page as it is
performInterBatchDelayOnly(a, outcome) ==
    IF interBatchDelay <= 0 THEN a
    ELSE [a EXCEPT !.slept = @ + interBatchDelay]

\* performInterBatchMaintenance with resetPageForNextBatch ending as given
performInterBatchMaintenance(a, outcome) ==
    IF interBatchDelay <= 0 THEN a
    ELSE [a EXCEPT !.uploadsSinceReset = 0,
                   !.uploadsSinceReload = IF outcome = "failed" THEN @ ELSE 0,
                   !.resets = @ + 1,
                   !.lastReset = outcome,
                   !.slept = @ + interBatchDelay]

\* number of tracks the page lists after an analysis that completed
TrackCounts(b) == {n \in {Len(b.files) - 1, Len(b.files)} : n >= 1}

logOutcome(log, outcome) == [log EXCEPT ![Len(log)].outcome = outcome]

\* how many writes the disk lets a run have outstanding
outstandingLimit(d) == IF d = "slow_disk" THEN MaxOverlap ELSE MaxOutstanding

canSave == Cardinality(pendingWrites) < outstandingLimit(driver)

startSave(f, now) ==
    IF enableProgressTracking
    THEN pendingWrites \cup {saveStateDoc(f, now)}
    ELSE pendingWrites

\* the upload command without --resume: executeFullWorkflow up to the loop
StartRun ==
    /\ pc = "idle"
    /\ LET p == prepareFilesForProcessing(fm, workflowStats, dir, optBatchSize)
       IN /\ fm' = p[1]
          /\ workflowStats' = p[2]
    /\ pc' = "loop"
    /\ consecutiveFailures' = 0
    /\ automation' = launch(automation)
    /\ UNCHANGED <<dir, optBatchSize, strict, driver, stateFile, pendingWrites, clock,
                   batch, analysed, stopReason, attemptLog, run,
                   loadedCompleted, planRest, mergeVars, endVars>>

\* while ((batch = getNextBatch())) ... markBatchStarted
Dequeue ==
    /\ pc = "loop"
    /\ getNextBatch(fm.batches) # 0
    /\ canSave
    /\ LET i == getNextBatch(fm.batches)
           f1 == [fm EXCEPT !.processingState.currentBatch = fm.batches[i].id]
           f2 == markBatchStarted(f1, fm.batches[i].id, clock)
       IN /\ batch' = i
          /\ fm' = f2
          /\ pendingWrites' = startSave(f2, clock)
          /\ attemptLog' = Append(attemptLog,
                                  [id |-> fm.batches[i].id, outcome |-> "inflight"])
    /\ clock' = clock + 1
    /\ pc' = "upload"
    /\ UNCHANGED <<dir, optBatchSize, strict, driver, stateFile, consecutiveFailures,
                   workflowStats, analysed, stopReason, run, loadedCompleted,
                   planVars, mergeVars, endVars>>

\* getNextBatch returns null: the loop ends
Exhausted ==
    /\ pc = "loop"
    /\ getNextBatch(fm.batches) = 0
    /\ pc' = "done"
    /\ stopReason' = "exhausted"
    /\ batch' = 0
    /\ UNCHANGED <<dir, optBatchSize, strict, driver, fm, stateFile, pendingWrites,
                   clock, consecutiveFailures, workflowStats, analysed,
                   attemptLog, run, loadedCompleted, planVars, mergeVars, endVars>>

\* the catch block of processSingleBatch and the failure branch of the loop
FailBatch(error, outcome) ==
    /\ canSave
    /\ LET b == fm.batches[batch]
           f1 == markBatchFailed(fm, b.id, error, b.files, clock)
           s1 == [workflowStats EXCEPT !.failedBatches = @ + 1,
                                       !.failedFiles = @ + Len(b.files)]
           t == loopTail(s1, afterFailure(consecutiveFailures), strict)
       IN /\ fm' = f1
          /\ pendingWrites' = startSave(f1, clock)
          /\ workflowStats' = s1
          /\ consecutiveFailures' = t.failures
          /\ pc' = t.pc
          /\ stopReason' = t.stop
          /\ LET a == IF pc = "upload" THEN uploadCalled(automation)
                      ELSE automation
             IN IF t.maintenance
                THEN \E r \in resetOutcomes(driver) :
                        automation' = performInterBatchMaintenance(a, r)
                ELSE automation' = a
    /\ clock' = clock + 1
    /\ attemptLog' = logOutcome(attemptLog, outcome)
    /\ analysed' = 0
    /\ UNCHANGED <<dir, optBatchSize, strict, driver, stateFile, batch, run,
                   loadedCompleted, planRest, mergeVars, endVars>>

\* uploadBatchFiles returned success
UploadSucceeded ==
    /\ pc = "upload"
    /\ driver # "fails_every_upload"
    /\ pc' = "analysis"
    /\ automation' = uploadCalled(automation)
    /\ UNCHANGED <<dir, optBatchSize, strict, driver, fm, stateFile, pendingWrites,
                   clock, batch, consecutiveFailures, workflowStats, analysed,
                   stopReason, attemptLog, run, loadedCompleted, planRest, mergeVars, endVars>>

\* uploadBatchFiles returned failure (the driver threw or uploaded nothing)
UploadFailed ==
    /\ pc = "upload"
    /\ FailBatch("Upload failed", "upload_failed")

\* monitorBatchAnalysis returned success with the page's track count
AnalysisSucceeded ==
    /\ pc = "analysis"
    /\ \E n \in TrackCounts(fm.batches[batch]) : analysed' = n
    /\ pc' = "download"
    /\ UNCHANGED <<dir, optBatchSize, strict, driver, fm, stateFile, pendingWrites,
                   clock, batch, consecutiveFailures, workflowStats,
                   stopReason, attemptLog, run, loadedCompleted, planVars, mergeVars, endVars>>

\* monitorBatchAnalysis returned failure (timeout or error state)
AnalysisFailed ==
    /\ pc = "analysis"
    /\ FailBatch("Analysis failed", "analysis_failed")

mergeCSVs == TRUE

\* a file of the output directory: music_analysis_<kind>_<id>.csv, the id
\* being the digits (results) or the time (complete) in the name
outputFileName(kind, id) == [kind |-> kind, id |-> id]

\* parseInt of a string of decimal digits
RECURSIVE parseDigits(_, _)
parseDigits(digits, acc) ==
    IF digits = <<>> THEN acc
    ELSE parseDigits(Tail(digits), acc * 10 + Head(digits))

parseInt(digits) == parseDigits(digits, 0)

\* String(n): the decimal digits of n
RECURSIVE toDigits(_)
toDigits(n) == IF n < 10 THEN <<n>> ELSE Append(toDigits(n \div 10), n % 10)

\* String(n).padStart(2, '0')
padStart2(n) == IF n < 10 THEN <<0, n>> ELSE toDigits(n)

\* String(n).padStart(3, '0')
padStart3(n) == IF n < 100 THEN <<0>> \o padStart2(n) ELSE toDigits(n)

Max(S) == CHOOSE x \in S : \A y \in S : y <= x

\* the file downloadBatchCSV leaves in batch_csvs:
\* batch_<id>_music_analysis_<time>.csv with one row per analysed track
batchCsv(b, tracks, process, now) ==
    [batch |-> b.id,
     time  |-> now,
     rows  |-> [k \in 1..tracks |-> [track |-> b.files[k], run |-> process]]]

\* what the export of the page can do for a driver: "downloaded",
\* "not_ready" (isCSVDownloadReady is false) or "download_failed"
\* (downloadCSV fails or throws)
exportOutcomes(d) ==
    IF d = "export_not_ready" THEN {"not_ready"}
    ELSE IF d = "export_fails" THEN {"download_failed"}
    ELSE {"downloaded", "not_ready", "download_failed"}

\* downloadBatchCSV: the result it returns; it throws nothing
downloadBatchCSV(outcome) ==
    [success |-> outcome = "downloaded",
     error |-> IF outcome = "not_ready" THEN "CSV not ready"
               ELSE IF outcome = "download_failed" THEN "CSV download failed"
               ELSE ""]

\* an export that is recorded whatever downloadBatchCSV returned
csvDownloadAlways(csvResult) == TRUE

\* if (csvResult.success) batchResult.csvDownload = csvResult
csvDownloadSet(csvResult) == csvResult.success

\* downloadBatchCSV returned (with or without an artifact); the batch is
\* marked completed and the success branch of the loop runs
BatchCompleted ==
    /\ pc = "download"
    /\ canSave
    /\ \E outcome \in exportOutcomes(driver) :
          LET csvResult == downloadBatchCSV(outcome)
              csvSuccess == csvDownloadSet(csvResult)
              b == fm.batches[batch]
              f1 == markBatchCompleted(fm, b.id, b.files, clock)
              s1 == [workflowStats EXCEPT
                        !.processedBatches = @ + 1,
                        !.processedFiles = @ + analysed,
                        !.csvDownloads = IF csvSuccess THEN Append(@, b.id) ELSE @]
              t == loopTail(s1, afterSuccess(consecutiveFailures), strict)
          IN /\ fm' = f1
             /\ pendingWrites' = startSave(f1, clock)
             /\ workflowStats' = s1
             /\ consecutiveFailures' = t.failures
             /\ pc' = t.pc
             /\ stopReason' = t.stop
             /\ batchCsvDir' = IF csvResult.success
                               THEN batchCsvDir \cup {batchCsv(b, analysed, run, clock)}
                               ELSE batchCsvDir
             /\ IF t.maintenance
                THEN \E r \in resetOutcomes(driver) :
                        automation' = performInterBatchMaintenance(automation, r)
                ELSE automation' = automation
    /\ clock' = clock + 1
    /\ attemptLog' = logOutcome(attemptLog, "completed")
    /\ analysed' = 0
    /\ UNCHANGED <<dir, optBatchSize, strict, driver, stateFile, batch, run,
                   loadedCompleted, planRest, mergeVars, workflowResult,
                   autoMerge, resultsDir, crash, loadResult>>

\* one fs.writeJson started by _saveState finishes; _saveState then stamps
\* lastSaveTime
WriteFinished ==
    /\ \E doc \in pendingWrites :
          /\ stateFile' = <<doc>>
          /\ pendingWrites' = pendingWrites \ {doc}
    /\ fm' = [fm EXCEPT !.processingState.lastSaveTime = Date(clock)]
    /\ UNCHANGED <<dir, optBatchSize, strict, driver, clock, pc, batch,
                   consecutiveFailures, workflowStats, analysed, stopReason,
                   attemptLog, run, loadedCompleted, planVars, mergeVars, endVars>>

\* SIGINT, SIGTERM or a crash while the loop is running: the process ends,
\* its memory and the writes it had not finished are gone
Interrupt ==
    /\ pc \in {"loop", "upload", "analysis", "download"}
    /\ pc' = "exited"
    /\ pendingWrites' = {}
    /\ fm' = FreshFileManager
    /\ workflowStats' = FreshWorkflowStats
    /\ batch' = 0
    /\ consecutiveFailures' = 0
    /\ analysed' = 0
    /\ attemptLog' = <<>>
    /\ UNCHANGED <<dir, optBatchSize, strict, driver, stateFile, clock,
                   stopReason, run, loadedCompleted, planVars, mergeVars, endVars>>

\* upload --resume on the same directory: a new process loads the state
\* file into a new FileManager, then runs executeFullWorkflow
ResumeWith(directoryPath) ==
    /\ pc = "exited"
    /\ run < MaxRuns
    /\ LET readable == resumeFromFailure /\ Len(stateFile) = 1
           loaded == IF readable
                     THEN loadState(FreshFileManager, stateFile[1])
                     ELSE FreshFileManager
           p == prepareFilesForProcessing(loaded, FreshWorkflowStats,
                                          directoryPath, optBatchSize)
       IN /\ fm' = p[1]
          /\ workflowStats' = p[2]
          /\ loadedCompleted' =
                {loaded.batches[i].id : i \in
                    {j \in DOMAIN loaded.batches :
                        loaded.batches[j].status = "completed"}}
          /\ loadResult' = IF readable THEN "loaded" ELSE "not_loaded"
    /\ run' = run + 1
    /\ pc' = "loop"
    /\ dir' = directoryPath
    /\ automation' = launch(automation)
    /\ UNCHANGED <<optBatchSize, strict, driver, stateFile, pendingWrites,
                   clock, batch, consecutiveFailures, analysed, stopReason,
                   attemptLog, planRest, mergeVars, workflowResult, autoMerge,
                   batchCsvDir, resultsDir, crash>>

ResumeRun == run < MaxRuns /\ ResumeWith(dir)

\* upload --resume on a directory without audio files
ResumeOnEmpty == dir # <<>> /\ ResumeWith(<<>>)

\* the file names of a directory
namesOf(directory) == {f.name : f \in directory}

\* "Find next available result number" of executeUploadWorkflow
nextResultNumber(existingResults) ==
    LET resultNumbers ==
            {IF name.kind = "results" THEN parseInt(name.id) ELSE 0 :
                name \in {n \in existingResults :
                             n.kind \in {"results", "results_backup"}}}
    IN IF resultNumbers # {} THEN Max(resultNumbers) + 1 ELSE 1

RECURSIVE concatRows(_)
concatRows(files) ==
    IF files = <<>> THEN <<>> ELSE Head(files).rows \o concatRows(Tail(files))

\* the orders fs.readdir can list a directory in
Readdirs(directory) ==
    {listing \in [1..Cardinality(directory) -> directory] :
        \A i, j \in DOMAIN listing : listing[i] = listing[j] => i = j}

\* executeFullWorkflow after the loop: it returns success, or rethrows what
\* the loop threw and the command exits
FinishWorkflow ==
    /\ pc \in {"done", "threw"}
    /\ workflowResult' = <<[success |-> pc = "done"]>>
    /\ pc' = IF pc = "done" THEN "returned" ELSE "finished"
    /\ UNCHANGED <<dir, optBatchSize, strict, driver, fm, stateFile, pendingWrites,
                   clock, batch, consecutiveFailures, workflowStats, analysed,
                   stopReason, attemptLog, run, loadedCompleted, planVars,
                   mergeVars, autoMerge, batchCsvDir, resultsDir, crash,
                   loadResult>>

\* the auto-merge of executeUploadWorkflow: every batch_*.csv of the batch
\* directory goes into the next numbered results file
AutoMerge ==
    /\ pc = "returned"
    /\ IF mergeCSVs /\ workflowResult[1].success
       THEN IF batchCsvDir # {}
            THEN \E csvFiles \in Readdirs(batchCsvDir) :
                    LET nextNumber == nextResultNumber(namesOf(resultsDir))
                        name == outputFileName("results", padStart2(nextNumber))
                    IN /\ resultsDir' =
                            {f \in resultsDir : f.name # name}
                                \cup {[name |-> name, run |-> run,
                                       rows |-> concatRows(csvFiles)]}
                       /\ autoMerge' = <<[success |-> TRUE]>>
            ELSE /\ autoMerge' = <<[success |-> FALSE]>>
                 /\ UNCHANGED resultsDir
       ELSE UNCHANGED <<autoMerge, resultsDir>>
    /\ pc' = "finished"
    /\ UNCHANGED <<dir, optBatchSize, strict, driver, fm, stateFile, pendingWrites,
                   clock, batch, consecutiveFailures, workflowStats, analysed,
                   stopReason, attemptLog, run, loadedCompleted, planVars,
                   mergeVars, workflowResult, batchCsvDir, crash, loadResult>>

\* the upload command is run once more, without --resume: a new process
RunAgain ==
    /\ pc = "finished"
    /\ run < MaxRuns
    /\ run' = run + 1
    /\ pc' = "idle"
    /\ pendingWrites' = {}
    /\ fm' = FreshFileManager
    /\ workflowStats' = FreshWorkflowStats
    /\ batch' = 0
    /\ consecutiveFailures' = 0
    /\ analysed' = 0
    /\ stopReason' = "none"
    /\ attemptLog' = <<>>
    /\ workflowResult' = <<>>
    /\ autoMerge' = <<>>
    /\ loadResult' = "none"
    /\ UNCHANGED <<dir, optBatchSize, strict, driver, stateFile, clock,
                   loadedCompleted, planVars, mergeVars, batchCsvDir,
                   resultsDir, crash>>

\* the process dies while fs.writeJson is rewriting the state file: the
\* file is left with the beginning of the new document
CrashDuringWrite ==
    /\ pc \in {"loop", "upload", "analysis", "download"}
    /\ \E doc \in pendingWrites :
          /\ crash' = <<[previous |-> stateFile, new |-> doc]>>
          /\ stateFile' = <<doc, "truncated">>
    /\ pc' = "exited"
    /\ pendingWrites' = {}
    /\ fm' = FreshFileManager
    /\ workflowStats' = FreshWorkflowStats
    /\ batch' = 0
    /\ consecutiveFailures' = 0
    /\ analysed' = 0
    /\ attemptLog' = <<>>
    /\ UNCHANGED <<dir, optBatchSize, strict, driver, clock, stopReason, run,
                   loadedCompleted, planVars, mergeVars, workflowResult,
                   autoMerge, batchCsvDir, resultsDir, loadResult>>

OrchNext ==
    \/ StartRun
    \/ Dequeue
    \/ Exhausted
    \/ UploadSucceeded
    \/ UploadFailed
    \/ AnalysisSucceeded
    \/ AnalysisFailed
    \/ BatchCompleted
    \/ WriteFinished

Next == OrchNext

\* one run of the upload command
Spec == Init /\ [][Next]_vars

\* the records a batch can be in at a call of getNextBatch: pending and
\* never started, or started 1 to maxAttempts times
BatchRecords(id) ==
    {newBatch(id, <<FilePaths[id]>>)}
        \cup {[newBatch(id, <<FilePaths[id]>>) EXCEPT
                  !.status = st, !.attempts = n] :
                 st \in {"processing", "completed", "failed"},
                 n \in 1..batchMaxAttempts}

\* the batches arrays getNextBatch is tried on: ids 1..n in creation order
BatchArrays ==
    UNION {{q \in [1..n -> UNION {BatchRecords(id) : id \in 1..n}] :
               \A i \in 1..n : q[i].id = i} : n \in 0..MaxQueueLen}

InitNextBatch ==
    /\ OrchInit({<<0, 1, "any">>})
    /\ PlanIdle
    /\ MergeIdle

\* a FileManager is given some batches
GivenBatches ==
    /\ pc = "idle"
    /\ \E batches \in BatchArrays : fm' = [fm EXCEPT !.batches = batches]
    /\ pc' = "query"
    /\ UNCHANGED <<dir, optBatchSize, strict, driver, stateFile, pendingWrites,
                   clock, batch, consecutiveFailures, workflowStats, analysed,
                   stopReason, attemptLog, run, loadedCompleted, planVars,
                   mergeVars, endVars>>

\* getNextBatch()
GetNextBatch ==
    /\ pc = "query"
    /\ LET i == getNextBatch(fm.batches)
       IN /\ batch' = i
          /\ fm' = IF i = 0 THEN fm
                   ELSE [fm EXCEPT !.processingState.currentBatch =
                                       fm.batches[i].id]
    /\ pc' = "queried"
    /\ UNCHANGED <<dir, optBatchSize, strict, driver, stateFile, pendingWrites,
                   clock, consecutiveFailures, workflowStats, analysed,
                   stopReason, attemptLog, run, loadedCompleted, planVars,
                   mergeVars, endVars>>

NextNextBatch == GivenBatches \/ GetNextBatch

\* getNextBatch called once on a FileManager
SpecNextBatch == InitNextBatch /\ [][NextNextBatch]_vars

InitQueue == OrchInit(RunConfigs) /\ PlanIdle /\ MergeIdle

\* runs on one full batch or two in which the page reset between batches
\* works or fails
ResetConfigs ==
    {<<k * s, s, d>> : k \in {1, 2}, s \in 1..MaxBatchSize,
                       d \in {"any", "reset_fails"}}

InitReset == OrchInit(ResetConfigs) /\ PlanIdle /\ MergeIdle

SpecReset == InitReset /\ [][Next]_vars

\* runs of one full batch or two on a disk slow enough for a save to be
\* still in progress when the next one starts
OverlapConfigs ==
    {<<k * s, s, "slow_disk">> : k \in {1, 2}, s \in 1..MaxBatchSize}

InitOverlap == OrchInit(OverlapConfigs) /\ PlanIdle /\ MergeIdle

SpecOverlap == InitOverlap /\ [][Next]_vars

\* runs against a page whose export is never ready or always fails
ExportConfigs ==
    {<<n, s, d>> : n \in 0..MaxFiles, s \in 1..MaxBatchSize,
                   d \in {"export_not_ready", "export_fails"}}

InitExport == OrchInit(ExportConfigs) /\ PlanIdle /\ MergeIdle

SpecExport == InitExport /\ [][Next]_vars

\* one run of the upload command on a small directory
SpecQueue == InitQueue /\ [][Next]_vars

\* every await of the loop returns (the driver's waits have timeouts) and
\* every write to the state file ends
\* directories that make one full batch or two, of every batch size
TwoBatchConfigs ==
    {<<k * s, s, "any">> : k \in {1, 2}, s \in 1..MaxBatchSize}

InitTermination == OrchInit(TwoBatchConfigs) /\ PlanIdle /\ MergeIdle

\* the run goes on while it can: Node runs the loop and the callbacks of
\* the writes it started until none is left
SpecTermination == InitTermination /\ [][Next]_vars /\ WF_vars(Next)

\* runs of the upload command with and without --strict
InitStrict == OrchInitWith(RunConfigs, BOOLEAN) /\ PlanIdle /\ MergeIdle

SpecStrict == InitStrict /\ [][Next]_vars

\* <<number of files, batch size, driver>> of the first of several runs
LifecycleConfigs ==
    {<<n, 1, "any">> : n \in 0..MaxRunFiles}
        \cup {<<maxConsecutiveFailures, 1, "fails_every_upload">>}

InitLifecycle == OrchInit(LifecycleConfigs) /\ PlanIdle /\ MergeIdle

NextLifecycle ==
    \/ OrchNext
    \/ FinishWorkflow
    \/ AutoMerge
    \/ RunAgain
    \/ Interrupt
    \/ CrashDuringWrite
    \/ ResumeRun
    \/ ResumeOnEmpty

\* upload commands run one after the other, to their end or to a signal
SpecLifecycle == InitLifecycle /\ [][NextLifecycle]_vars

NextRuns == OrchNext \/ FinishWorkflow \/ AutoMerge \/ RunAgain

\* upload commands run to their end one after the other
SpecRuns == InitLifecycle /\ [][NextRuns]_vars

InitResume == OrchInit(ResumeConfigs) /\ PlanIdle /\ MergeIdle

NextResume == OrchNext \/ Interrupt \/ ResumeRun

\* runs of the upload command that are interrupted and resumed
SpecResume == InitResume /\ [][NextResume]_vars

NextInterrupted == OrchNext \/ Interrupt \/ ResumeRun \/ ResumeOnEmpty

\* interrupted runs resumed on the same directory or on an empty one; a
\* process that is running goes on until its loop ends or a signal comes
SpecInterrupted ==
    InitResume /\ [][NextInterrupted]_vars /\ WF_vars(OrchNext)

\* ------------------------------------------------------------------------
\* The legacy process command: processDirectory and processBatches
\* ------------------------------------------------------------------------
\* processDirectory up to the loop of processBatches
StartProcess ==
    /\ pc = "idle"
    /\ LET d == discoverFiles(fm, dir)
       IN IF Len(d.discoveredFiles) = 0
          THEN /\ fm' = d
               /\ pc' = "legacy_done"
          ELSE /\ fm' = createBatches(d, Null, optBatchSize)
               /\ pc' = "legacy_loop"
    /\ UNCHANGED <<dir, optBatchSize, strict, driver, stateFile, pendingWrites,
                   clock, batch, consecutiveFailures, workflowStats, analysed,
                   stopReason, attemptLog, run, loadedCompleted, planVars,
                   mergeVars, endVars>>

\* while ((batch = getNextBatch())) ... markBatchStarted
LegacyDequeue ==
    /\ pc = "legacy_loop"
    /\ getNextBatch(fm.batches) # 0
    /\ canSave
    /\ LET i == getNextBatch(fm.batches)
           f1 == [fm EXCEPT !.processingState.currentBatch = fm.batches[i].id]
           f2 == markBatchStarted(f1, fm.batches[i].id, clock)
       IN /\ batch' = i
          /\ fm' = f2
          /\ pendingWrites' = startSave(f2, clock)
          /\ attemptLog' = Append(attemptLog,
                                  [id |-> fm.batches[i].id, outcome |-> "inflight"])
    /\ clock' = clock + 1
    /\ pc' = "legacy_batch"
    /\ UNCHANGED <<dir, optBatchSize, strict, driver, stateFile,
                   consecutiveFailures, workflowStats, analysed, stopReason, run,
                   loadedCompleted, planVars, mergeVars, endVars>>

\* the try block ran to its end: markBatchCompleted
LegacyBatchCompleted ==
    /\ pc = "legacy_batch"
    /\ driver = "any"
    /\ canSave
    /\ LET b == fm.batches[batch]
           f1 == markBatchCompleted(fm, b.id, b.files, clock)
       IN /\ fm' = f1
          /\ pendingWrites' = startSave(f1, clock)
    /\ clock' = clock + 1
    /\ attemptLog' = logOutcome(attemptLog, "completed")
    /\ pc' = "legacy_loop"
    /\ UNCHANGED <<dir, optBatchSize, strict, driver, stateFile, batch,
                   consecutiveFailures, workflowStats, analysed, stopReason, run,
                   loadedCompleted, planVars, mergeVars, endVars>>

\* the catch block: markBatchFailed, then continue, or rethrow when strict
LegacyBatchFailed ==
    /\ pc = "legacy_batch"
    /\ canSave
    /\ LET b == fm.batches[batch]
           f1 == markBatchFailed(fm, b.id, "Upload failed", b.files, clock)
       IN /\ fm' = f1
          /\ pendingWrites' = startSave(f1, clock)
    /\ clock' = clock + 1
    /\ attemptLog' = logOutcome(attemptLog, "upload_failed")
    /\ pc' = IF strict THEN "legacy_threw" ELSE "legacy_loop"
    /\ UNCHANGED <<dir, optBatchSize, strict, driver, stateFile, batch,
                   consecutiveFailures, workflowStats, analysed, stopReason, run,
                   loadedCompleted, planVars, mergeVars, endVars>>

\* getNextBatch returns null: processBatches returns
LegacyExhausted ==
    /\ pc = "legacy_loop"
    /\ getNextBatch(fm.batches) = 0
    /\ pc' = "legacy_done"
    /\ batch' = 0
    /\ UNCHANGED <<dir, optBatchSize, strict, driver, fm, stateFile, pendingWrites,
                   clock, consecutiveFailures, workflowStats, analysed, stopReason,
                   attemptLog, run, loadedCompleted, planVars, mergeVars, endVars>>

InitLegacy ==
    /\ OrchInitWith(RunConfigs \cup {<<1, 1, "fails_every_upload">>}, BOOLEAN)
    /\ PlanIdle
    /\ MergeIdle

NextLegacy ==
    \/ StartProcess
    \/ LegacyDequeue
    \/ LegacyBatchCompleted
    \/ LegacyBatchFailed
    \/ LegacyExhausted
    \/ WriteFinished

\* one run of the process command
SpecLegacy == InitLegacy /\ [][NextLegacy]_vars

\* every await of the loop returns (the driver's waits have timeouts) and
\* every write to the state file ends
SpecLegacyFair == SpecLegacy /\ WF_vars(NextLegacy)

\* ------------------------------------------------------------------------
\* createBatches on its own
\* ------------------------------------------------------------------------
PlanPaths == {"f01", "f02"}

SeqsUpTo(S, n) == UNION {[1..k -> S] : k \in 0..n}

InitPlan ==
    /\ OrchInit({<<0, 1, "any">>})
    /\ planFiles \in SeqsUpTo(PlanPaths, MaxPlanLen)
    /\ planSize \in 1..MaxPlanSize
    /\ planResult = <<>>
    /\ PageIdle
    /\ FormatIdle
    /\ WaitIdle
    /\ MergeIdle

\* createBatches(planFiles, planSize) on a new FileManager
PlanBatches ==
    /\ planResult = <<>>
    /\ planResult' = <<createBatches(FreshFileManager, planFiles, planSize)>>
    /\ UNCHANGED <<orchVars, planFiles, planSize, pageVars, formatVars,
                   waitVars, mergeVars>>

NextPlan == PlanBatches

SpecPlan == InitPlan /\ [][NextPlan]_vars

\* ------------------------------------------------------------------------
\* The formatters of the CSV export
\* ------------------------------------------------------------------------
\* numbers the formatters are tried on, in ten-thousandths: around 0,
\* 0.8523, 1, 127.5 and 127.6
FormatNumbers ==
    {a + d : a \in {0, 8523, 10000, 1275000, 1276000},
             d \in (0 - MaxFormatTail)..MaxFormatTail}

FormatInputs ==
    {jsValue(t, 0) : t \in {"null", "undefined", "empty_string", "text", "NaN"}}
        \cup {jsValue(t, n) : t \in {"number", "numeric_string"},
                              n \in FormatNumbers}

\* bpm === null || bpm === undefined || bpm === ''
isBlank(value) == value.type \in {"null", "undefined", "empty_string"}

\* parseFloat: <<>> for NaN, <<n>> for the number n
parseFloat(value) ==
    IF value.type \in {"number", "numeric_string"} THEN <<value.num>> ELSE <<>>

abs(n) == IF n < 0 THEN 0 - n ELSE n

\* Math.round: the nearest integer, a half going up
mathRound(n) == (n + 5000) \div 10000

\* Number.prototype.toString of an integer; -0 prints as 0
integerToString(k) == field(k < 0, toDigits(abs(k)), <<>>)

\* three digits of a number below 1000
threeDigits(t) == <<t \div 100, (t \div 10) % 10, t % 10>>

\* Number.prototype.toFixed(3): the nearest thousandth of the double behind
\* the decimal; a decimal that ends in 5 ten-thousandths is a double just
\* below or just above the half, or the half itself
toFixed3(n) ==
    LET a == abs(n)
        q == a \div 10
        r == a % 10
        thousandths == IF r < 5 THEN {q}
                       ELSE IF r > 5 THEN {q + 1}
                       ELSE {q, q + 1}
    IN {field(n < 0, toDigits(t \div 1000), threeDigits(t % 1000)) :
           t \in thousandths}

formatBPMTruncates(bpm) ==
    IF isBlank(bpm) THEN emptyField
    ELSE LET numericBPM == parseFloat(bpm)
         IN IF numericBPM = <<>> THEN emptyField
            ELSE integerToString(numericBPM[1] \div 10000)

\* formatBPM
formatBPM(bpm) ==
    IF isBlank(bpm) THEN emptyField
    ELSE LET numericBPM == parseFloat(bpm)
         IN IF numericBPM = <<>> THEN emptyField
            ELSE integerToString(mathRound(numericBPM[1]))

\* formatMoodValue: the fields it can return
formatMoodValue(value) ==
    IF isBlank(value) THEN {emptyField}
    ELSE LET numericValue == parseFloat(value)
         IN IF numericValue = <<>> THEN {emptyField}
            ELSE IF numericValue[1] < 0 \/ numericValue[1] > 10000
                 THEN toFixed3(numericValue[1])
                 ELSE toFixed3(numericValue[1])

\* processTrackToCSVRow formats the tempo of a track
FormatBPM ==
    /\ fmtPc = "input"
    /\ fmtOutput' = formatBPM(fmtInput)
    /\ fmtPc' = "bpm"
    /\ UNCHANGED <<orchVars, planFiles, planSize, planResult, pageVars,
                   fmtInput, waitVars, mergeVars>>

\* processTrackToCSVRow formats a mood, genre or danceability score
FormatMoodValue ==
    /\ fmtPc = "input"
    /\ fmtOutput' \in formatMoodValue(fmtInput)
    /\ fmtPc' = "mood"
    /\ UNCHANGED <<orchVars, planFiles, planSize, planResult, pageVars,
                   fmtInput, waitVars, mergeVars>>

InitFormat ==
    /\ OrchInit({<<0, 1, "any">>})
    /\ planFiles = <<>>
    /\ planSize = 1
    /\ planResult = <<>>
    /\ PageIdle
    /\ WaitIdle
    /\ fmtInput \in FormatInputs
    /\ fmtOutput = emptyField
    /\ fmtPc = "input"
    /\ MergeIdle

NextFormat == FormatBPM \/ FormatMoodValue

\* one value formatted as a tempo or as a score
SpecFormat == InitFormat /\ [][NextFormat]_vars

\* ------------------------------------------------------------------------
\* The analysis page and its file queue
\* ------------------------------------------------------------------------
\* what happens to a file in the page: analysed, decodeAudioData rejects,
\* or the workers never deliver the predictions
PageFates == {"ok", "undecodable", "unanalysable"}

PageFileNames == <<"t1.mp3", "t2.mp3", "t3.mp3", "t4.mp3", "t5.mp3">>

\* the files of one upload: distinct names, any fates
PageBatches ==
    {[i \in 1..n |-> [name |-> PageFileNames[i], fate |-> fates[i]]] :
        n \in 1..MaxPageBatch, fates \in [1..MaxPageBatch -> PageFates]}

\* processNextFile
processNextFile(p) ==
    IF p.filesQueue = <<>>
    THEN [p EXCEPT !.isProcessing = FALSE, !.step = "idle"]
    ELSE [p EXCEPT !.isProcessing = TRUE,
                   !.currentAnalysingFile = <<Head(p.filesQueue)>>,
                   !.filesQueue = Tail(p.filesQueue),
                   !.step = "decoding"]

\* processFileUpload(files)
processFileUpload(p, files) ==
    LET pushed == [p EXCEPT !.filesQueue = @ \o files]
    IN IF ~p.isProcessing THEN processNextFile(pushed) ELSE pushed

\* queueNextFile: the timer that calls processNextFile, or the queue at rest
queueNextFile(p) ==
    IF p.filesQueue # <<>>
    THEN [p EXCEPT !.step = "timer"]
    ELSE [p EXCEPT !.isProcessing = FALSE, !.step = "idle"]

\* uploadFiles of the BrowserAutomation: the file chooser hands the files of
\* the batch to the change listener of the page
UploadFiles ==
    /\ automation.uploads < MaxPageUploads
    /\ ~automation.monitoring
    /\ \E files \in PageBatches :
          /\ page' = processFileUpload(page, files)
          /\ automation' = [automation EXCEPT
                                !.uploads = @ + 1,
                                !.monitoring = TRUE,
                                !.batches = Append(@, [files |-> files,
                                                       completed |-> <<>>])]
    /\ UNCHANGED <<orchVars, planFiles, planSize, planResult, formatVars,
                   waitVars, mergeVars>>

\* file.arrayBuffer().then(decodeFile): no rejection handler anywhere on the
\* chain, so a file that does not decode ends the chain
DecodeFile ==
    /\ page.step = "decoding"
    /\ page' = IF page.currentAnalysingFile[1].fate = "undecodable"
               THEN [page EXCEPT !.step = "stalled"]
               ELSE [page EXCEPT !.loaderActive = ~@, !.step = "analysing"]
    /\ UNCHANGED <<orchVars, planFiles, planSize, planResult, automation,
                   formatVars, waitVars, mergeVars>>

\* collectPredictions once the five inference workers have answered
CollectPredictions ==
    /\ page.step = "analysing"
    /\ page' = IF page.currentAnalysingFile[1].fate = "unanalysable"
               THEN [page EXCEPT !.step = "stalled"]
               ELSE queueNextFile(
                        [page EXCEPT
                            !.analysedTracks =
                                Append(@, page.currentAnalysingFile[1].name),
                            !.loaderActive = ~@])
    /\ UNCHANGED <<orchVars, planFiles, planSize, planResult, automation,
                   formatVars, waitVars, mergeVars>>

\* the timer of queueNextFile fires
NextFileTimer ==
    /\ page.step = "timer"
    /\ page' = processNextFile(page)
    /\ UNCHANGED <<orchVars, planFiles, planSize, planResult, automation,
                   formatVars, waitVars, mergeVars>>

\* the models the page creates one inference worker for
modelNames ==
    {"mood_happy", "mood_sad", "mood_relaxed", "mood_aggressive", "danceability"}

\* a worker that answers whether its model is ready or not
answersAlways(ready, n) == TRUE

\* modelPredict of inference worker n: it computes and posts predictions
\* only if (modelReady); features that come earlier are dropped
modelPredict(ready, n) == n \in ready

\* one upload of sound files to a page that was just loaded
UploadSoundFiles ==
    /\ automation.uploads = 0
    /\ \E n \in 1..MaxPageBatch :
          LET files == [i \in 1..n |-> [name |-> PageFileNames[i], fate |-> "ok"]]
          IN /\ page' = processFileUpload(page, files)
             /\ automation' = [automation EXCEPT
                                   !.uploads = @ + 1,
                                   !.batches = Append(@, [files |-> files,
                                                          completed |-> <<>>])]
    /\ UNCHANGED <<orchVars, planFiles, planSize, planResult, formatVars,
                   waitVars, mergeVars>>

\* an inference worker has loaded and warmed up its model
ModelReady ==
    /\ \E n \in modelNames \ page.modelsReady :
          page' = [page EXCEPT !.modelsReady = @ \cup {n}]
    /\ UNCHANGED <<orchVars, planFiles, planSize, planResult, automation,
                   formatVars, waitVars, mergeVars>>

\* the feature extraction worker answers: the features are posted to the
\* five inference workers; collectPredictions acts once all five have
\* answered, stores the track, replaces the workers by new ones and
\* goes on with the queue
FeaturesPosted ==
    /\ page.step = "analysing"
    /\ LET answered == {n \in modelNames : modelPredict(page.modelsReady, n)}
       IN page' = IF answered # modelNames
                  THEN [page EXCEPT !.step = "stalled"]
                  ELSE queueNextFile(
                           [page EXCEPT
                               !.analysedTracks =
                                   Append(@, page.currentAnalysingFile[1].name),
                               !.loaderActive = ~@,
                               !.modelsReady = {}])
    /\ UNCHANGED <<orchVars, planFiles, planSize, planResult, automation,
                   formatVars, waitVars, mergeVars>>

NextWorkers ==
    \/ UploadSoundFiles
    \/ DecodeFile
    \/ ModelReady
    \/ FeaturesPosted
    \/ NextFileTimer

\* monitorAnalysisProgress: true when the loader is seen inactive twice,
\* false when the loader stays active and the track count stops growing
MonitorAnalysisProgress ==
    /\ automation.monitoring
    /\ page.step \in {"idle", "stalled"}
    /\ automation' = [automation EXCEPT
                          !.monitoring = FALSE,
                          !.batches[Len(automation.batches)].completed =
                              <<~page.loaderActive>>]
    /\ UNCHANGED <<orchVars, planFiles, planSize, planResult, page,
                   formatVars, waitVars, mergeVars>>

InitPage ==
    /\ OrchInit({<<0, 1, "any">>})
    /\ PlanIdle
    /\ MergeIdle

NextPage ==
    \/ UploadFiles
    \/ DecodeFile
    \/ CollectPredictions
    \/ NextFileTimer
    \/ MonitorAnalysisProgress

\* sound files analysed by a page whose workers load their models while
\* the files are decoded; every step that can be taken is taken
SpecWorkers == InitPage /\ [][NextWorkers]_vars /\ WF_vars(NextWorkers)

\* batches uploaded one after the other to the same page
SpecPage == InitPage /\ [][NextPage]_vars

\* ------------------------------------------------------------------------
\* BrowserAutomation.waitForAnalysisComplete
\* ------------------------------------------------------------------------

\* the predicate both page.evaluate calls of monitorAnalysisProgress run:
\* toggleLoader switches the classes disabled and active together
isComplete(u) == u.loaderDisplay = "none" \/ ~u.loaderActive

\* waitForAnalysisStart: the loader is active or not hidden by its style
waitForAnalysisStart(u) ==
    u.loaderActive \/ u.loaderDisplay # "none" \/ u.tracks > 0

\* the return of monitorAnalysisProgress after its loop, and what
\* waitForAnalysisComplete makes of it: true is returned, false is thrown
finalCheck(w, u, exit) ==
    LET finalTrackCount == u.tracks
        completed == finalTrackCount > 0 /\ w.stuckCounter < maxStuckIterations
    IN [w EXCEPT !.pc = IF completed THEN "returned" ELSE "threw",
                 !.exit = exit]

\* one look of monitorAnalysisProgress at the page: at "polling" the loop
\* condition and the first isComplete, at "doublecheck" the second one,
\* doubleCheckDelay later; each is followed by the rest of the iteration
\* when the loader is seen active
monitorAnalysisProgress(w, u) ==
    IF w.pc = "polling" /\ ~(w.elapsed < w.timeout)
    THEN finalCheck(w, u, "timeout")
    ELSE IF w.pc = "polling" /\ isComplete(u)
    THEN [w EXCEPT !.pc = "doublecheck", !.elapsed = @ + doubleCheckDelay]
    ELSE IF w.pc = "doublecheck" /\ isComplete(u)
    THEN [w EXCEPT !.pc = "returned", !.exit = "complete"]
    ELSE LET currentTrackCount == u.tracks
             progressed == currentTrackCount > w.lastTrackCount
             w1 == IF progressed
                   THEN [w EXCEPT !.lastTrackCount = currentTrackCount,
                                  !.stuckCounter = 0]
                   ELSE [w EXCEPT !.stuckCounter = @ + 1]
         IN IF ~progressed /\ w1.stuckCounter >= maxStuckIterations
            THEN finalCheck(w1, u, "stuck")
            ELSE IF u.errors THEN finalCheck(w1, u, "error")
            ELSE [w1 EXCEPT !.pc = "polling",
                            !.elapsed = @ + analysisProgressCheckInterval]

\* waitForAnalysisComplete up to the call of monitorAnalysisProgress
WaitForAnalysisStart ==
    /\ wait.pc = "start"
    /\ wait' = [wait EXCEPT !.pc = IF waitForAnalysisStart(ui)
                                   THEN "polling" ELSE "threw"]
    /\ UNCHANGED <<orchVars, planFiles, planSize, planResult, pageVars,
                   formatVars, ui, mergeVars>>

\* the driver looks at the page once more
MonitorPoll ==
    /\ wait.pc \in {"polling", "doublecheck"}
    /\ wait' = monitorAnalysisProgress(wait, ui)
    /\ UNCHANGED <<orchVars, planFiles, planSize, planResult, pageVars,
                   formatVars, ui, mergeVars>>

\* the page finishes a file: collectPredictions lists the track and
\* toggles the loader off
PageAnalysesTrack ==
    /\ ui.left > 0
    /\ ui.loaderActive
    /\ ui' = [ui EXCEPT !.tracks = @ + 1,
                        !.left = @ - 1,
                        !.loaderActive = FALSE]
    /\ UNCHANGED <<orchVars, planFiles, planSize, planResult, pageVars,
                   formatVars, wait, mergeVars>>

\* the page has decoded the next file of the queue: decodeFile toggles
\* the loader on
PageDecodesFile ==
    /\ ui.left > 0
    /\ ~ui.loaderActive
    /\ ui' = [ui EXCEPT !.loaderActive = TRUE]
    /\ UNCHANGED <<orchVars, planFiles, planSize, planResult, pageVars,
                   formatVars, wait, mergeVars>>

\* an error message becomes visible on the page
PageShowsError ==
    /\ ~ui.errors
    /\ ui' = [ui EXCEPT !.errors = TRUE]
    /\ UNCHANGED <<orchVars, planFiles, planSize, planResult, pageVars,
                   formatVars, wait, mergeVars>>

\* a batch was uploaded and its first file is being decoded or analysed
\* when waitForAnalysisComplete(timeout) is called
InitWait ==
    /\ OrchInit({<<0, 1, "any">>})
    /\ planFiles = <<>>
    /\ planSize = 1
    /\ planResult = <<>>
    /\ PageIdle
    /\ FormatIdle
    /\ \E n \in 1..MaxWaitFiles, active \in BOOLEAN :
          ui = [FreshUi EXCEPT !.loaderActive = active, !.left = n]
    /\ \E k \in 1..MaxTimeoutPolls :
          wait = [FreshWait EXCEPT
                     !.pc = "start",
                     !.timeout = k * analysisProgressCheckInterval]
    /\ MergeIdle

NextWait ==
    \/ WaitForAnalysisStart
    \/ MonitorPoll
    \/ PageAnalysesTrack
    \/ PageDecodesFile
    \/ PageShowsError

\* one call of waitForAnalysisComplete while the page analyses a batch
SpecWait == InitWait /\ [][NextWait]_vars

\* ------------------------------------------------------------------------
\* CSVMerger
\* ------------------------------------------------------------------------
expectedSchema ==
    <<"Filename", "BPM", "Key", "Happy", "Sad", "Relaxed", "Aggressive",
      "Danceability">>

\* the columns generateCSV of the page writes as the header of an export
CSV_SCHEMA ==
    <<"filename", "bpm", "key", "mood_happy", "mood_sad", "mood_relaxed",
      "mood_aggressive", "mood_electronic", "mood_acoustic", "mood_party",
      "genre_alternative", "genre_blues", "genre_electronic_genre",
      "genre_folkcountry", "genre_funksoulrnb", "genre_jazz", "genre_pop",
      "genre_raphiphop", "genre_rock", "danceability">>

includeMetadata == FALSE

DuplicateStrategies == {"keep_first", "keep_last", "flag_duplicates"}

\* the track names of the model in String.prototype.localeCompare order
NameOrder == <<"", "a.mp3", "b.mp3", "c.mp3", "d.mp3", "song.mp3">>

localeRank(name) == CHOOSE i \in DOMAIN NameOrder : NameOrder[i] = name

\* the analysis values a batch artifact carries, one per artifact
ValueTags == <<"v1", "v2", "v3", "v4">>

\* path.basename of an artifact: batch_<id>_music_analysis_<timestamp>.csv
BaseNames ==
    <<<<"batch_001_music_analysis_t1.csv", "batch_001_music_analysis_t2.csv",
        "batch_001_music_analysis_t3.csv", "batch_001_music_analysis_t4.csv">>,
      <<"batch_002_music_analysis_t1.csv", "batch_002_music_analysis_t2.csv",
        "batch_002_music_analysis_t3.csv", "batch_002_music_analysis_t4.csv">>>>

BatchNumbers == DOMAIN BaseNames

basename(file) == BaseNames[file.batch][file.stamp]

\* the digits of a path in the default input directory that
\* /batch_(\d+)_/ captures: those downloadBatchCSV put behind batch_
matchBatchDigits(file) == file.digits

\* a comparator key that orders the captured digits as text
extractBatchNumberAsText(file) ==
    LET d == matchBatchDigits(file)
    IN parseInt(d \o [i \in 1..(4 - Len(d)) |-> 0])

\* the number the comparator of discoverBatchFiles reads out of a path
extractBatchNumber(file) == parseInt(matchBatchDigits(file))

\* the header the merger expects, and one that lost its last column
HeaderKinds == {expectedSchema, SubSeq(expectedSchema, 1, Len(expectedSchema) - 1)}

\* the object csv-parser builds for one line: keys in header order
csvRow(header, name, stamp) ==
    [from |-> stamp,
     keys |-> header,
     val  |-> [col \in Range(header) |->
                  IF col = "Filename" THEN name ELSE ValueTags[stamp]]]

\* a batch artifact written at time `stamp`
artifact(stamp, batchNumber, header, names) ==
    [batch  |-> batchNumber,
     digits |-> padStart3(batchNumber),
     stamp  |-> stamp,
     header |-> header,
     rows   |-> [i \in DOMAIN names |-> csvRow(header, names[i], stamp)]]

\* row[col], '' standing for undefined as well
get(row, col) == IF col \in DOMAIN row.val THEN row.val[col] ELSE ""

\* row.Filename || row.filename || row.file || ''
filenameOf(row) ==
    IF get(row, "Filename") # "" THEN get(row, "Filename")
    ELSE IF get(row, "filename") # "" THEN get(row, "filename")
    ELSE get(row, "file")

\* Array.prototype.sort is stable: x goes behind every element not above it
insertByBatch(sorted, x) ==
    LET p == Cardinality({i \in DOMAIN sorted :
                 extractBatchNumber(sorted[i]) <= extractBatchNumber(x)})
    IN SubSeq(sorted, 1, p) \o <<x>> \o SubSeq(sorted, p + 1, Len(sorted))

RECURSIVE sortByBatch(_, _)
sortByBatch(files, sorted) ==
    IF files = <<>> THEN sorted
    ELSE sortByBatch(Tail(files), insertByBatch(sorted, Head(files)))

\* discoverBatchFiles on what glob listed
discoverBatchFiles(listing) == sortByBatch(listing, <<>>)

validateSchema(actualHeaders) ==
    LET missingColumns ==
            SelectSeq(expectedSchema, LAMBDA col : col \notin Range(actualHeaders))
    IN [valid |-> missingColumns = <<>>, missing |-> missingColumns]

RECURSIVE validateLoop(_, _, _)
validateLoop(files, results, stats) ==
    IF files = <<>> THEN <<results, stats>>
    ELSE LET file == Head(files)
             schemaValid == validateSchema(file.header)
         IN IF file.header = <<>>
            THEN \* stats.size === 0: not even a header line
                 validateLoop(Tail(files),
                     [results EXCEPT !.invalidFiles =
                          Append(@, [file |-> basename(file),
                                     error |-> "File is empty"])],
                     stats)
            ELSE IF ~schemaValid.valid
            THEN validateLoop(Tail(files),
                     [results EXCEPT !.schemaErrors =
                          Append(@, [file |-> basename(file),
                                     missing |-> schemaValid.missing])],
                     [stats EXCEPT !.validationErrors = @ + 1])
            ELSE validateLoop(Tail(files),
                     [results EXCEPT !.validFiles =
                          Append(@, [file |-> basename(file),
                                     rowCount |-> Len(file.rows)])],
                     stats)

\* validateBatchFiles: <<validationResults, mergeStats>>
validateBatchFiles(files, stats) == validateLoop(files, NoValidation, stats)

\* consolidatedData.findIndex(item => filename of item === filename); 0 for -1
findIndexOfName(data, filename) ==
    IF \E i \in DOMAIN data : filenameOf(data[i]) = filename
    THEN CHOOSE i \in DOMAIN data :
            /\ filenameOf(data[i]) = filename
            /\ \A j \in 1..(i - 1) : filenameOf(data[j]) # filename
    ELSE 0

\* consolidatedData.splice(index, 1)
splice1(data, index) ==
    SubSeq(data, 1, index - 1) \o SubSeq(data, index + 1, Len(data))

\* row._duplicate = true; row._original_batch = path.basename(filePath)
flagDuplicate(row, file) ==
    LET added == SelectSeq(<<"_duplicate", "_original_batch">>,
                           LAMBDA k : k \notin Range(row.keys))
    IN [row EXCEPT
          !.keys = @ \o added,
          !.val  = [col \in DOMAIN row.val \cup {"_duplicate", "_original_batch"} |->
                       IF col = "_duplicate" THEN "true"
                       ELSE IF col = "_original_batch" THEN basename(file)
                       ELSE row.val[col]]]

\* keep_last that leaves the earlier row in place
consolidateRowKeepsBoth(acc, row, file, strategy) ==
    LET filename == filenameOf(row)
        seen     == filename \in acc.seen
        found    == IF seen THEN acc.duplicatesFound + 1 ELSE acc.duplicatesFound
    IN IF seen /\ strategy = "keep_first"
       THEN [acc EXCEPT !.duplicatesFound = found,
                        !.duplicatesResolved = @ + 1]
       ELSE [acc EXCEPT
               !.data = Append(@, IF seen /\ strategy = "flag_duplicates"
                                  THEN flagDuplicate(row, file) ELSE row),
               !.seen = @ \cup {filename},
               !.duplicatesFound = found,
               !.duplicatesResolved =
                   IF seen /\ strategy \in DuplicateStrategies THEN @ + 1 ELSE @]

\* the body of the row loop of consolidateCSVData
consolidateRow(acc, row, file, strategy) ==
    LET filename == filenameOf(row)
        seen     == filename \in acc.seen
        found    == IF seen THEN acc.duplicatesFound + 1 ELSE acc.duplicatesFound
        existingIndex == findIndexOfName(acc.data, filename)
        kept     == IF seen /\ strategy = "keep_last" /\ existingIndex # 0
                    THEN splice1(acc.data, existingIndex)
                    ELSE acc.data
        pushed   == IF seen /\ strategy = "flag_duplicates"
                    THEN flagDuplicate(row, file)
                    ELSE row
    IN IF seen /\ strategy = "keep_first"
       THEN [acc EXCEPT !.duplicatesFound = found,
                        !.duplicatesResolved = @ + 1]
       ELSE [acc EXCEPT
               !.data = Append(kept, pushed),
               !.seen = @ \cup {filename},
               !.duplicatesFound = found,
               !.duplicatesResolved =
                   IF seen /\ strategy \in DuplicateStrategies THEN @ + 1 ELSE @]

RECURSIVE consolidateRows(_, _, _, _)
consolidateRows(acc, rows, file, strategy) ==
    IF rows = <<>> THEN acc
    ELSE consolidateRows(consolidateRow(acc, Head(rows), file, strategy),
                         Tail(rows), file, strategy)

RECURSIVE consolidateFiles(_, _, _)
consolidateFiles(acc, files, strategy) ==
    IF files = <<>> THEN acc
    ELSE LET done == consolidateRows(acc, Head(files).rows, Head(files), strategy)
         IN consolidateFiles(
                [done EXCEPT !.batchFilesProcessed = @ + 1],
                Tail(files), strategy)

insertByFilename(sorted, x) ==
    LET p == Cardinality({i \in DOMAIN sorted :
                 localeRank(filenameOf(sorted[i])) <= localeRank(filenameOf(x))})
    IN SubSeq(sorted, 1, p) \o <<x>> \o SubSeq(sorted, p + 1, Len(sorted))

RECURSIVE sortByFilename(_, _)
sortByFilename(data, sorted) ==
    IF data = <<>> THEN sorted
    ELSE sortByFilename(Tail(data), insertByFilename(sorted, Head(data)))

\* consolidateCSVData: <<consolidatedData, mergeStats>>
consolidateCSVData(files, strategy, stats) ==
    LET acc == consolidateFiles(
                   [data |-> <<>>, seen |-> {},
                    duplicatesFound |-> stats.duplicatesFound,
                    duplicatesResolved |-> stats.duplicatesResolved,
                    batchFilesProcessed |-> stats.batchFilesProcessed],
                   files, strategy)
        consolidatedData == sortByFilename(acc.data, <<>>)
    IN <<consolidatedData,
         [stats EXCEPT !.duplicatesFound = acc.duplicatesFound,
                       !.duplicatesResolved = acc.duplicatesResolved,
                       !.batchFilesProcessed = acc.batchFilesProcessed,
                       !.totalRowsProcessed = Len(consolidatedData)]>>

\* row[header] || ''
cell(row, header) == get(row, header)

\* writeCSVFile: the header line from the keys of the first row
writeCSVFile(data) ==
    LET headers == data[1].keys
    IN [header |-> headers,
        lines  |-> [i \in DOMAIN data |->
                       [j \in DOMAIN headers |-> cell(data[i], headers[j])]]]

\* countCSVRows of a written file
countCSVRows(file) == Len(file.lines)

verifyOutputCountOnly(file, originalData) ==
    IF countCSVRows(file) # Len(originalData) THEN "Row count mismatch"
    ELSE ""

\* verifyOutput: the message it throws, "" when it passes
verifyOutput(file, originalData) ==
    IF countCSVRows(file) # Len(originalData) THEN "Row count mismatch"
    ELSE IF ~validateSchema(file.header).valid THEN "Output schema invalid"
    ELSE ""

\* the track names the generated artifacts draw their rows from
RowNames == {"a.mp3", "song.mp3"}

\* <<batch number, header, names of the rows>> of a generated artifact
ArtifactShapes ==
    BatchNumbers \X HeaderKinds \X SeqsUpTo(RowNames, MaxRows)

GeneratedDirectories ==
    {[k \in DOMAIN shapes |-> artifact(k, shapes[k][1], shapes[k][2], shapes[k][3])] :
        shapes \in SeqsUpTo(ArtifactShapes, MaxArtifacts)}

\* the scenario of the design document: 3 rows and 2 rows sharing a.mp3
ScenarioDirectory ==
    <<artifact(1, 1, expectedSchema, <<"a.mp3", "b.mp3", "c.mp3">>),
      artifact(2, 2, expectedSchema, <<"a.mp3", "d.mp3">>)>>

InitMerge ==
    /\ OrchInit({<<0, 1, "any">>})
    /\ PlanIdle
    /\ batchDir \in GeneratedDirectories \cup {ScenarioDirectory}
    /\ duplicateStrategy \in DuplicateStrategies
    /\ cleanupBatchFiles = FALSE
    /\ mpc = "start"
    /\ batchFiles = <<>>
    /\ validationResults = NoValidation
    /\ mergedData = <<>>
    /\ outputFile = <<>>
    /\ mergeStats = FreshMergeStats
    /\ mergeResult = <<>>
    /\ NamingIdle

\* the orders glob can list the directory in
Listings(directory) ==
    {[i \in DOMAIN directory |-> directory[p[i]]] :
        p \in {q \in [DOMAIN directory -> DOMAIN directory] :
                  \A i, j \in DOMAIN directory : q[i] = q[j] => i = j}}

\* batch ids whose names differ in length or in leading zeros
DiscoverIds == {9, 10, 999, 1000}

\* the input directory holds artifacts of those batches, written in any order
InitDiscover ==
    /\ OrchInit({<<0, 1, "any">>})
    /\ PlanIdle
    /\ batchDir \in {[k \in DOMAIN ids |-> artifact(k, ids[k], expectedSchema, <<>>)] :
                        ids \in SeqsUpTo(DiscoverIds, MaxDiscovered)}
    /\ duplicateStrategy = "keep_first"
    /\ cleanupBatchFiles = FALSE
    /\ mpc = "start"
    /\ batchFiles = <<>>
    /\ validationResults = NoValidation
    /\ mergedData = <<>>
    /\ outputFile = <<>>
    /\ mergeStats = FreshMergeStats
    /\ mergeResult = <<>>
    /\ NamingIdle

\* the merger's header in lower case, and with one more column
LowerCaseSchema ==
    <<"filename", "bpm", "key", "happy", "sad", "relaxed", "aggressive",
      "danceability">>

SchemaHeaders ==
    HeaderKinds \cup {<<>>, CSV_SCHEMA, LowerCaseSchema,
                      Append(expectedSchema, "Comment")}

\* the input directory holds artifacts with any of those headers
InitSchema ==
    /\ OrchInit({<<0, 1, "any">>})
    /\ PlanIdle
    /\ batchDir \in {[k \in DOMAIN hs |-> artifact(k, 1, hs[k], <<"a.mp3">>)] :
                        hs \in SeqsUpTo(SchemaHeaders, MaxArtifacts)}
    /\ duplicateStrategy = "keep_first"
    /\ cleanupBatchFiles = FALSE
    /\ mpc = "start"
    /\ batchFiles = <<>>
    /\ validationResults = NoValidation
    /\ mergedData = <<>>
    /\ outputFile = <<>>
    /\ mergeStats = FreshMergeStats
    /\ mergeResult = <<>>
    /\ NamingIdle

\* the catch block of mergeCSVFiles
mergeFailed(stats, message) ==
    /\ mergeStats' = [stats EXCEPT !.processingErrors = @ + 1]
    /\ mergeResult' = <<[success |-> FALSE, error |-> message]>>
    /\ mpc' = "done"

\* step 1 of mergeCSVFiles
Discover ==
    /\ mpc = "start"
    /\ \E listing \in Listings(batchDir) :
          /\ batchFiles' = discoverBatchFiles(listing)
          /\ LET stats == [mergeStats EXCEPT !.batchFilesFound = Len(listing)]
             IN IF Len(listing) = 0
                THEN mergeFailed(stats, "No batch CSV files found for merging")
                ELSE /\ mergeStats' = stats
                     /\ mpc' = "discovered"
                     /\ UNCHANGED mergeResult
    /\ UNCHANGED <<orchVars, planVars, batchDir, duplicateStrategy,
                   cleanupBatchFiles,
                   validationResults, mergedData, outputFile, namingVars>>

\* step 2 of mergeCSVFiles
Validate ==
    /\ mpc = "discovered"
    /\ LET r == validateBatchFiles(batchFiles, mergeStats)
       IN /\ validationResults' = r[1]
          /\ mergeStats' = r[2]
    /\ mpc' = "validated"
    /\ UNCHANGED <<orchVars, planVars, batchDir, duplicateStrategy,
                   cleanupBatchFiles, batchFiles,
                   mergedData, outputFile, mergeResult, namingVars>>

\* step 3 of mergeCSVFiles
Consolidate ==
    /\ mpc = "validated"
    /\ LET r == consolidateCSVData(batchFiles, duplicateStrategy, mergeStats)
       IN /\ mergedData' = r[1]
          /\ mergeStats' = r[2]
    /\ mpc' = "consolidated"
    /\ UNCHANGED <<orchVars, planVars, batchDir, duplicateStrategy,
                   cleanupBatchFiles, batchFiles,
                   validationResults, outputFile, mergeResult, namingVars>>

enableBackup == TRUE

\* getNextFileNumber that counts the files it found
getNextFileNumberByCount(directory) ==
    LET existingFiles ==
            {f \in directory : f.kind \in {"results", "results_backup"}}
    IN Cardinality(existingFiles) + 1

\* getNextFileNumber: glob music_analysis_results_*.csv, read the numbers
\* with /music_analysis_results_(\d+)\.csv/, keep those above 0
getNextFileNumber(directory) ==
    LET existingFiles ==
            {f \in directory : f.kind \in {"results", "results_backup"}}
        numbers ==
            {n \in {IF f.kind = "results" THEN parseInt(f.id) ELSE 0 :
                       f \in existingFiles} : n > 0}
    IN IF existingFiles = {} THEN 1
       ELSE (IF numbers # {} THEN Max(numbers) ELSE 0) + 1

\* the file name generateOutputFile chooses
outputName(template, directory, now) ==
    IF template = NumberedTemplate
    THEN outputFileName("results", padStart2(getNextFileNumber(directory)))
    ELSE outputFileName("complete", <<now>>)

\* outputPath.replace('.csv', '_backup.csv')
backupName(name) ==
    outputFileName(IF name.kind = "results" THEN "results_backup"
                   ELSE "complete_backup", name.id)

\* step 4 of mergeCSVFiles
GenerateOutput ==
    /\ mpc = "consolidated"
    /\ LET name   == outputName(outputTemplate, outputDir, mergeClock)
           backed == IF enableBackup /\ name \in outputDir
                     THEN outputDir \cup {backupName(name)}
                     ELSE outputDir
       IN IF Len(mergedData) = 0
          THEN /\ mergeFailed(mergeStats,
                      "Failed to generate output file: No data to write")
               /\ outputDir' = backed
               /\ UNCHANGED <<outputFile, outputLog>>
          ELSE /\ outputFile' = <<writeCSVFile(mergedData)>>
               /\ outputDir' = backed \cup {name}
               /\ outputLog' = Append(outputLog,
                                   [name |-> name, before |-> outputDir])
               /\ mpc' = "written"
               /\ UNCHANGED <<mergeStats, mergeResult>>
    /\ UNCHANGED <<orchVars, planVars, batchDir, duplicateStrategy,
                   cleanupBatchFiles, batchFiles,
                   validationResults, mergedData, outputTemplate, mergeRun,
                   mergeClock>>

\* a cleanup that removes the artifacts whatever the configuration says
cleanupAlways(enabled, directory, files) == <<>>

\* step 6 of mergeCSVFiles: what the input directory holds after it;
\* cleanupBatchFiles removes every discovered file
cleanupStep(enabled, directory, files) ==
    IF enabled
    THEN SelectSeq(directory, LAMBDA f : \A i \in DOMAIN files : files[i] # f)
    ELSE directory

\* steps 5 and 6 of mergeCSVFiles and its return
VerifyOutput ==
    /\ mpc = "written"
    /\ LET message == verifyOutput(outputFile[1], mergedData)
       IN IF message # ""
          THEN /\ mergeFailed(mergeStats, message)
               /\ UNCHANGED batchDir
          ELSE /\ batchDir' = cleanupStep(cleanupBatchFiles, batchDir, batchFiles)
               /\ mergeResult' = <<[success |-> TRUE, error |-> ""]>>
               /\ mpc' = "done"
               /\ UNCHANGED mergeStats
    /\ UNCHANGED <<orchVars, planVars, duplicateStrategy, cleanupBatchFiles,
                   batchFiles, validationResults, mergedData, outputFile,
                   namingVars>>

NextMerge == Discover \/ Validate \/ Consolidate \/ GenerateOutput \/ VerifyOutput

\* one call of mergeCSVFiles on a new CSVMerger
SpecMerge == InitMerge /\ [][NextMerge]_vars

\* a merge with cleanup switched on or off
InitCleanup ==
    /\ OrchInit({<<0, 1, "any">>})
    /\ PlanIdle
    /\ batchDir \in GeneratedDirectories \cup {ScenarioDirectory}
    /\ duplicateStrategy = "keep_first"
    /\ cleanupBatchFiles \in BOOLEAN
    /\ mpc = "start"
    /\ batchFiles = <<>>
    /\ validationResults = NoValidation
    /\ mergedData = <<>>
    /\ outputFile = <<>>
    /\ mergeStats = FreshMergeStats
    /\ mergeResult = <<>>
    /\ NamingIdle

\* discovery and validation of artifacts with all kinds of headers
SpecSchema == InitSchema /\ [][Discover \/ Validate]_vars

\* discovery alone, on directories with short and long batch ids
SpecDiscover == InitDiscover /\ [][Discover]_vars

\* the write stream of writeCSVFile ends before every line reached the
\* disk: the file keeps its header and the first lines only
PartialWrite ==
    /\ mpc = "written"
    /\ countCSVRows(outputFile[1]) = Len(mergedData)
    /\ \E kept \in 0..(Len(mergedData) - 1) :
          outputFile' = <<[outputFile[1] EXCEPT
                             !.lines = SubSeq(@, 1, kept)]>>
    /\ UNCHANGED <<orchVars, planVars, batchDir, duplicateStrategy,
                   cleanupBatchFiles, batchFiles,
                   validationResults, mergedData, mergeStats, mergeResult, mpc,
                   namingVars>>

NextVerify == NextMerge \/ PartialWrite

\* one call of mergeCSVFiles whose output may be cut short on disk
SpecVerify == InitMerge /\ [][NextVerify]_vars

\* the same with cleanup switched on or off
SpecCleanup == InitCleanup /\ [][NextVerify]_vars

\* ------------------------------------------------------------------------
\* merge runs one after the other on the same output directory
\* ------------------------------------------------------------------------
\* digit strings of the result files found in the output directory
SuffixDigits ==
    {d \in SeqsUpTo(0..MaxSuffix, 2) : d # <<>> /\ parseInt(d) <= MaxSuffix}

\* files an output directory can hold before the first run: result files,
\* a backup of one, and a timestamped file of an earlier time
ExistingOutputs ==
    {outputFileName("results", d) : d \in SuffixDigits}
        \cup {outputFileName("results_backup", <<0, 1>>),
              outputFileName("complete", <<0>>)}

InitNaming ==
    /\ OrchInit({<<0, 1, "any">>})
    /\ PlanIdle
    /\ batchDir = ScenarioDirectory
    /\ duplicateStrategy = "keep_first"
    /\ cleanupBatchFiles = FALSE
    /\ mpc = "start"
    /\ batchFiles = <<>>
    /\ validationResults = NoValidation
    /\ mergedData = <<>>
    /\ outputFile = <<>>
    /\ mergeStats = FreshMergeStats
    /\ mergeResult = <<>>
    /\ outputTemplate \in {NumberedTemplate, TimestampTemplate}
    /\ outputDir \in SUBSET ExistingOutputs
    /\ outputLog = <<>>
    /\ mergeRun = 1
    /\ mergeClock = 1

\* the merge command is run again: a new process, a new CSVMerger, later
RestartMerge ==
    /\ mpc = "done"
    /\ mergeRun < MaxMergeRuns
    /\ mergeRun' = mergeRun + 1
    /\ mergeClock' = mergeClock + 1
    /\ mpc' = "start"
    /\ batchFiles' = <<>>
    /\ validationResults' = NoValidation
    /\ mergedData' = <<>>
    /\ outputFile' = <<>>
    /\ mergeStats' = FreshMergeStats
    /\ mergeResult' = <<>>
    /\ UNCHANGED <<orchVars, planVars, batchDir, duplicateStrategy,
                   cleanupBatchFiles,
                   outputTemplate, outputDir, outputLog>>

NextNaming == NextMerge \/ RestartMerge

\* the retry loop of executeMergeWorkflow: the attempt returned without
\* success, the workflow sleeps mergeRetryDelay and calls mergeCSVFiles
\* again on the same CSVMerger, whose mergeStats are those of the
\* attempts before; mergeRun is mergeAttempt here
RetryMerge ==
    /\ mpc = "done"
    /\ ~mergeResult[1].success
    /\ mergeRun < maxMergeRetries
    /\ mergeRun' = mergeRun + 1
    /\ mergeClock' = mergeClock + 1
    /\ mpc' = "start"
    /\ batchFiles' = <<>>
    /\ validationResults' = NoValidation
    /\ mergedData' = <<>>
    /\ outputFile' = <<>>
    /\ mergeResult' = <<>>
    /\ UNCHANGED <<orchVars, planVars, batchDir, duplicateStrategy,
                   cleanupBatchFiles, mergeStats,
                   outputTemplate, outputDir, outputLog>>

\* executeMergeWorkflow reaches its retry loop only if discovery found files
InitMergeWorkflow ==
    /\ OrchInit({<<0, 1, "any">>})
    /\ PlanIdle
    /\ batchDir \in (GeneratedDirectories \cup {ScenarioDirectory}) \ {<<>>}
    /\ duplicateStrategy = "keep_first"
    /\ cleanupBatchFiles = FALSE
    /\ mpc = "start"
    /\ batchFiles = <<>>
    /\ validationResults = NoValidation
    /\ mergedData = <<>>
    /\ outputFile = <<>>
    /\ mergeStats = FreshMergeStats
    /\ mergeResult = <<>>
    /\ NamingIdle

NextMergeWorkflow == NextVerify \/ RetryMerge

\* one call of executeMergeWorkflow
SpecMergeWorkflow == InitMergeWorkflow /\ [][NextMergeWorkflow]_vars

SpecNaming == InitNaming /\ [][NextNaming]_vars


\* ------------------------------------------------------------------------
\* Properties of the upload orchestrator
\* ------------------------------------------------------------------------
BatchIndexes == DOMAIN fm.batches

\* the attempts made on the batch with this id, oldest first
attemptsOf(id) == SelectSeq(attemptLog, LAMBDA e : e.id = id)

attemptedIds == {attemptLog[k].id : k \in DOMAIN attemptLog}

AllUploadsFailed ==
    \A k \in DOMAIN attemptLog : attemptLog[k].outcome = "upload_failed"

\* C1: when every upload fails and there are at least `threshold` batches,
\* the loop ends after exactly `threshold` attempts, made on the batches
\* 1..threshold, and every other batch is still pending with attempts = 0.
C1_BreakerAfterThreshold ==
    (pc = "done" /\ AllUploadsFailed
        /\ Len(fm.batches) >= maxConsecutiveFailures)
    => /\ Len(attemptLog) = maxConsecutiveFailures
       /\ stopReason = "breaker"
       /\ attemptedIds = 1..maxConsecutiveFailures
       /\ \A i \in BatchIndexes :
             fm.batches[i].id \notin attemptedIds
             => fm.batches[i].status = "pending" /\ fm.batches[i].attempts = 0

C1_Witness ==
    /\ pc = "done"
    /\ driver = "fails_every_upload"
    /\ Len(fm.batches) = 10
    /\ Len(attemptLog) = 3
    /\ \A i \in 4..10 : fm.batches[i].status = "pending"

isFailure(e) == e.outcome \in {"upload_failed", "analysis_failed"}

\* batch j failed on its first k attempts and succeeded on attempt k + 1,
\* every other batch succeeded on its first attempt
RetryThenSucceed(j, k) ==
    \A i \in BatchIndexes :
        LET o == attemptsOf(fm.batches[i].id)
        IN IF i = j
           THEN /\ Len(o) = k + 1
                /\ o[k + 1].outcome = "completed"
                /\ \A m \in 1..k : isFailure(o[m])
           ELSE /\ Len(o) = 1
                /\ o[1].outcome = "completed"

\* C3: a run in which one batch fails k < maxAttempts times and then
\* succeeds, all others succeeding at once, ends with every batch completed,
\* that batch with attempts = k + 1, and processedCount = number of files.
C3_RetryThenSucceed ==
    \A j \in BatchIndexes : \A k \in 0..(batchMaxAttempts - 1) :
        (pc = "done" /\ RetryThenSucceed(j, k))
        => /\ \A i \in BatchIndexes : fm.batches[i].status = "completed"
           /\ fm.batches[j].attempts = k + 1
           /\ fm.processingState.processedCount = Len(dir)
           /\ fm.processingState.totalFiles = Len(dir)
           /\ stopReason = "exhausted"

C3_Witness ==
    /\ pc = "done"
    /\ Len(dir) = 7
    /\ [i \in BatchIndexes |-> Len(fm.batches[i].files)] = <<3, 3, 1>>
    /\ [i \in BatchIndexes |-> fm.batches[i].id] = <<1, 2, 3>>
    /\ RetryThenSucceed(2, 2)
    /\ fm.batches[2].status = "completed"
    /\ fm.batches[2].attempts = 3
    /\ fm.processingState.processedCount = 7

\* C4: processedCount + failedCount never exceeds totalFiles.
C4_CounterInvariant ==
    fm.processingState.processedCount + fm.processingState.failedCount
        <= fm.processingState.totalFiles

\* C5: a resumed run never dequeues a batch that the state it loaded
\* records as completed.
C5_ResumeSkipsCompleted ==
    run > 1 => attemptedIds \cap loadedCompleted = {}

\* C6: saving the in-memory state and loading the document into a new
\* FileManager gives back the batches (ids, files, statuses, attempts,
\* timestamps, errors), the counters and start time of processingState, and
\* the processed and failed file-path sets.
C6_SaveLoadRoundTrip ==
    LET loaded == loadState(FreshFileManager, saveStateDoc(fm, clock))
    IN /\ loaded.batches = fm.batches
       /\ loaded.processingState.totalFiles = fm.processingState.totalFiles
       /\ loaded.processingState.processedCount = fm.processingState.processedCount
       /\ loaded.processingState.failedCount = fm.processingState.failedCount
       /\ loaded.processingState.currentBatch = fm.processingState.currentBatch
       /\ loaded.processingState.startTime = fm.processingState.startTime
       /\ Range(loaded.processedFiles) = Range(fm.processedFiles)
       /\ Range(loaded.failedFiles) = Range(fm.failedFiles)

\* a document on disk that holds a completed and a failed batch, with the
\* same batches still in memory
C6_Witness ==
    /\ stateFile # <<>>
    /\ \E i, j \in BatchIndexes :
          /\ fm.batches[i].status = "completed"
          /\ fm.batches[j].status = "failed"
          /\ fm.batches[j].error # Null
          /\ stateFile[1].batches = saveStateDoc(fm, clock).batches
    /\ fm.processedFiles # <<>>
    /\ fm.failedFiles # <<>>

\* ------------------------------------------------------------------------
\* Properties of createBatches
\* ------------------------------------------------------------------------
RECURSIVE concatFiles(_)
concatFiles(batches) ==
    IF batches = <<>> THEN <<>>
    ELSE Head(batches).files \o concatFiles(Tail(batches))

\* C2: the batches' files, concatenated in id order, are the input list,
\* ids are 1, 2, ... and no batch holds more than batchSize files.
C2_PartitionComplete ==
    planResult # <<>>
    => LET bs == planResult[1].batches
       IN /\ concatFiles(bs) = planFiles
          /\ \A i \in DOMAIN bs :
                /\ bs[i].id = i
                /\ Len(bs[i].files) <= planSize
                /\ Len(bs[i].files) >= 1

C2_Witness ==
    /\ planResult # <<>>
    /\ Len(planFiles) = 4
    /\ planSize = 3
    /\ Len(planResult[1].batches) = 2
    /\ Len(planResult[1].batches[2].files) = 1

\* ------------------------------------------------------------------------
\* Properties of the CSV merge
\* ------------------------------------------------------------------------
lacksRequiredColumn(file) ==
    \E col \in Range(expectedSchema) : col \notin Range(file.header)

allRows(files) == UNION {Range(files[i].rows) : i \in DOMAIN files}

\* the lines of the written file whose Filename cell is `name`
linesFor(name) ==
    {i \in DOMAIN outputFile[1].lines :
        \E j \in DOMAIN outputFile[1].header :
            /\ outputFile[1].header[j] = "Filename"
            /\ outputFile[1].lines[i][j] = name}

\* the cell of line i of the written file under column `col`, "" if absent
outputCell(i, col) ==
    IF \E j \in DOMAIN outputFile[1].header : outputFile[1].header[j] = col
    THEN outputFile[1].lines[i][CHOOSE j \in DOMAIN outputFile[1].header :
                                    outputFile[1].header[j] = col]
    ELSE ""

\* C7: once mergeCSVFiles has returned, every batch artifact whose header
\* lacks a required column is recorded in schemaErrors, none of its rows is
\* among the consolidated rows, and, when some valid artifact has rows, the
\* merge succeeded with the rows of every valid artifact represented.
C7_SchemaRejection ==
    (mpc = "done" /\ batchFiles # <<>>) =>
        \A i \in DOMAIN batchDir :
            lacksRequiredColumn(batchDir[i]) =>
                /\ \E e \in Range(validationResults.schemaErrors) :
                       e.file = basename(batchDir[i])
                /\ \A r \in Range(mergedData) : r.from # i
                /\ (\E k \in DOMAIN batchDir :
                        /\ ~lacksRequiredColumn(batchDir[k])
                        /\ batchDir[k].rows # <<>>)
                    => /\ mergeResult[1].success
                       /\ \A k \in DOMAIN batchDir :
                            ~lacksRequiredColumn(batchDir[k]) =>
                                \A row \in Range(batchDir[k].rows) :
                                    \E r \in Range(mergedData) :
                                        filenameOf(r) = filenameOf(row)

\* the directory holds two valid artifacts, `early` with the smaller batch
\* number, each with exactly one row named `name`
duplicatePair(early, late, name) ==
    /\ DOMAIN batchDir = {early, late}
    /\ batchDir[early].batch < batchDir[late].batch
    /\ \A k \in {early, late} :
          /\ ~lacksRequiredColumn(batchDir[k])
          /\ Cardinality({j \in DOMAIN batchDir[k].rows :
                 filenameOf(batchDir[k].rows[j]) = name}) = 1

\* C8: when two artifacts merged in batch-number order each hold a row of
\* the same filename with different values, the written file has, under
\* keep_first, one line of that name with the earlier artifact's values;
\* under keep_last, one line with the later artifact's values; under
\* flag_duplicates, two lines, the later artifact's one marked _duplicate.
C8_DuplicatePolicyInFile ==
    mpc = "done" =>
        \A early, late \in DOMAIN batchDir : \A name \in Range(NameOrder) :
            duplicatePair(early, late, name) =>
                /\ outputFile # <<>>
                /\ duplicateStrategy = "keep_first" =>
                      /\ Cardinality(linesFor(name)) = 1
                      /\ \A i \in linesFor(name) :
                            outputCell(i, "BPM") = ValueTags[early]
                /\ duplicateStrategy = "keep_last" =>
                      /\ Cardinality(linesFor(name)) = 1
                      /\ \A i \in linesFor(name) :
                            outputCell(i, "BPM") = ValueTags[late]
                /\ duplicateStrategy = "flag_duplicates" =>
                      /\ Cardinality(linesFor(name)) = 2
                      /\ \E i \in linesFor(name) :
                            /\ outputCell(i, "BPM") = ValueTags[late]
                            /\ outputCell(i, "_duplicate") = "true"

\* the first (keep_first) or last (keep_last) input row of a name, in the
\* order consolidateCSVData reads the artifacts and their rows
occurrences(name) ==
    UNION {{<<i, j>> : j \in {k \in DOMAIN batchFiles[i].rows :
                                 filenameOf(batchFiles[i].rows[k]) = name}} :
           i \in DOMAIN batchFiles}

before(p, q) == p[1] < q[1] \/ (p[1] = q[1] /\ p[2] <= q[2])

chosenRow(name, strategy) ==
    LET p == CHOOSE p \in occurrences(name) :
                 \A q \in occurrences(name) :
                     IF strategy = "keep_first" THEN before(p, q) ELSE before(q, p)
    IN batchFiles[p[1]].rows[p[2]]

\* C9: under keep_first and under keep_last, once consolidateCSVData has
\* returned, no two consolidated rows share a filename key, there are as
\* many rows as distinct filename keys among the rows of all artifacts, and
\* each row is the first (keep_first) or the last (keep_last) input row of
\* its filename.
C9_FilenameUniqueness ==
    (mpc \in {"consolidated", "written", "done"}
       /\ batchFiles # <<>>
       /\ duplicateStrategy \in {"keep_first", "keep_last"}) =>
        /\ \A i, j \in DOMAIN mergedData :
              filenameOf(mergedData[i]) = filenameOf(mergedData[j]) => i = j
        /\ Len(mergedData) =
              Cardinality({filenameOf(r) : r \in allRows(batchFiles)})
        /\ \A i \in DOMAIN mergedData :
              mergedData[i] =
                  chosenRow(filenameOf(mergedData[i]), duplicateStrategy)

\* the scenario directory consolidated under keep_first: 4 rows, a.mp3 from
\* the artifact of batch 1
C9_Witness ==
    /\ mpc = "consolidated"
    /\ batchDir = ScenarioDirectory
    /\ duplicateStrategy = "keep_first"
    /\ Len(mergedData) = 4
    /\ \E i \in DOMAIN mergedData :
          /\ filenameOf(mergedData[i]) = "a.mp3"
          /\ mergedData[i].from = 1
          /\ batchDir[mergedData[i].from].batch = 1

\* C10: over a directory of valid artifacts, the consolidated rows are the
\* same sequence, ascending by filename, for every order in which the
\* directory listing can return the artifacts.
C10_MergeDeterminism ==
    (mpc \in {"consolidated", "written", "done"}
       /\ batchFiles # <<>>
       /\ \A i \in DOMAIN batchDir : ~lacksRequiredColumn(batchDir[i])) =>
        /\ \A i, j \in DOMAIN mergedData :
              i <= j => localeRank(filenameOf(mergedData[i]))
                          <= localeRank(filenameOf(mergedData[j]))
        /\ \A listing \in Listings(batchDir) :
              consolidateCSVData(discoverBatchFiles(listing),
                                 duplicateStrategy, FreshMergeStats)[1]
                  = mergedData

\* ------------------------------------------------------------------------
\* Properties of the output file name
\* ------------------------------------------------------------------------
\* the largest number in the names of the result files of a directory, 0
\* when there is none
largestSuffix(directory) ==
    LET suffixes == {parseInt(f.id) : f \in {g \in directory : g.kind = "results"}}
    IN IF suffixes = {} THEN 0 ELSE Max(suffixes)

numberedAfter(entry) ==
    /\ entry.name.kind = "results"
    /\ entry.name.id = padStart2(largestSuffix(entry.before) + 1)

\* C11 as stated: every merge run writes a file that was not in the output
\* directory before, named with the two-digit number that follows the
\* largest number among the result files already there (01 if none).
C11_FreshNumberedName ==
    \A i \in DOMAIN outputLog :
        /\ outputLog[i].name \notin outputLog[i].before
        /\ numberedAfter(outputLog[i])

\* C11 amended: every merge run writes a file that was not in the output
\* directory before, so no file of an earlier run is overwritten; when
\* config.outputFilename holds {number, the name carries the number that
\* follows the largest one among the result files already there (01 if
\* none); otherwise it carries the time of the run and no number.
C11_FreshOutputName ==
    /\ \A i \in DOMAIN outputLog :
          /\ outputLog[i].name \notin outputLog[i].before
          /\ outputLog[i].before \subseteq outputDir
          /\ outputLog[i].name \in outputDir
          /\ IF outputTemplate = NumberedTemplate
             THEN numberedAfter(outputLog[i])
             ELSE outputLog[i].name.kind = "complete"
    /\ \A i, j \in DOMAIN outputLog :
          outputLog[i].name = outputLog[j].name => i = j

\* three numbered runs on a directory that held result file 01
C11_Witness ==
    /\ outputTemplate = NumberedTemplate
    /\ Len(outputLog) = 3
    /\ outputFileName("results", <<0, 1>>) \in outputLog[1].before
    /\ outputLog[3].name = outputFileName("results", <<0, 4>>)

\* ------------------------------------------------------------------------
\* Properties of the run's end
\* ------------------------------------------------------------------------
\* C12: with strict = true, no batch is dequeued after a failed batch
\* attempt and the run ends with an error as soon as the attempt has been
\* handled; with strict = false, the run does not end after a failed
\* attempt while a batch is still eligible, unless the breaker tripped.
C12_StrictAborts ==
    /\ strict =>
          \A i \in DOMAIN attemptLog :
              isFailure(attemptLog[i]) =>
                  /\ i = Len(attemptLog)
                  /\ pc = "threw"
                  /\ stopReason = "error"
    /\ (~strict /\ pc \in {"done", "threw"} /\ stopReason # "breaker") =>
          getNextBatch(fm.batches) = 0

\* C13: once the loop was stopped by the consecutive-failure threshold,
\* executeFullWorkflow does not report success and the auto-merge is not
\* entered.
C13_BreakerIsTerminalError ==
    (stopReason = "breaker" /\ pc \in {"returned", "finished"}) =>
        /\ ~workflowResult[1].success
        /\ autoMerge = <<>>

\* C14: when a process died while a save of the processing state was in
\* progress and a complete state file existed before, the next load does
\* not come back empty-handed: the state file holds a complete document.
C14_AtomicSave ==
    (crash # <<>> /\ Len(crash[1].previous) = 1) =>
        /\ Len(stateFile) = 1
        /\ (pc = "exited" => stateFile[1] \in {crash[1].previous[1], crash[1].new})
        /\ loadResult # "not_loaded"

\* C16: in a run whose directory holds no audio file there is no batch,
\* nothing is dequeued or uploaded, and executeFullWorkflow returns success.
C16_ZeroFilesNoOp ==
    (dir = <<>> /\ pc \notin {"idle", "exited"}) =>
        /\ fm.batches = <<>>
        /\ attemptLog = <<>>
        /\ pc \in {"loop", "done", "returned", "finished"}
        /\ (pc \in {"returned", "finished"} => workflowResult[1].success)

\* C17: every row of a results file comes from a batch CSV downloaded by
\* the run that wrote the file.
C17_NoCarryover ==
    \A f \in resultsDir : \A k \in DOMAIN f.rows : f.rows[k].run = f.run

\* ------------------------------------------------------------------------
\* Properties of the verification of the merged file
\* ------------------------------------------------------------------------
\* the verification of the written file has something to object to
outputRejected ==
    \/ countCSVRows(outputFile[1]) # Len(mergedData)
    \/ ~validateSchema(outputFile[1].header).valid

\* C15: when the file read back has another number of rows than the
\* consolidated data, or a header that fails the schema check, mergeCSVFiles
\* returns success = false with an error, and the file it wrote is still in
\* the output directory.
C15_VerificationFailure ==
    (mpc = "done" /\ outputFile # <<>> /\ outputRejected) =>
        /\ ~mergeResult[1].success
        /\ mergeResult[1].error # ""
        /\ outputLog[Len(outputLog)].name \in outputDir

\* a complete file whose header lacks a required column was written, the
\* merge is reported as failed and the file is on disk
C15_Witness ==
    /\ mpc = "done"
    /\ outputFile # <<>>
    /\ countCSVRows(outputFile[1]) = Len(mergedData)
    /\ ~validateSchema(outputFile[1].header).valid
    /\ mergeResult[1].error = "Output schema invalid"
    /\ outputLog[Len(outputLog)].name \in outputDir

\* a file cut short was written and the merge is reported as failed
C15_WitnessRowCount ==
    /\ mpc = "done"
    /\ outputFile # <<>>
    /\ validateSchema(outputFile[1].header).valid
    /\ mergeResult[1].error = "Row count mismatch"
    /\ outputLog[Len(outputLog)].name \in outputDir

\* ------------------------------------------------------------------------
\* Properties of the page's queue
\* ------------------------------------------------------------------------
\* the files of an upload that cannot be analysed
failingFiles(files) == {i \in DOMAIN files : files[i].fate # "ok"}

\* C18: when the page has nothing left it will do, no file that can be
\* analysed is still waiting in the queue, and a batch with a single failing
\* file is not reported as failed by the monitoring.
C18_QueueKeepsAdvancing ==
    /\ page.step \in {"idle", "stalled"} =>
          \A i \in DOMAIN page.filesQueue : page.filesQueue[i].fate # "ok"
    /\ \A k \in DOMAIN automation.batches :
          LET b == automation.batches[k]
          IN (b.completed # <<>> /\ Cardinality(failingFiles(b.files)) <= 1)
                 => b.completed[1]

\* ------------------------------------------------------------------------
\* Properties of the legacy loop
\* ------------------------------------------------------------------------
\* the batch has reached the end of its life in processBatches
settled(b) ==
    \/ b.status = "completed"
    \/ b.status = "failed" /\ b.attempts = b.maxAttempts

\* when processBatches returned without --strict, every batch is completed
\* or failed after maxAttempts attempts; no batch is attempted more often
LegacySettled ==
    /\ \A i \in DOMAIN fm.batches : fm.batches[i].attempts <= batchMaxAttempts
    /\ (pc = "legacy_done" /\ ~strict) =>
          \A i \in DOMAIN fm.batches : settled(fm.batches[i])

\* C19: without --strict a failing batch of processBatches is attempted
\* again until it has maxAttempts (3) attempts and is then left failed; the
\* loop ends, and when it has ended every batch is completed or failed with
\* attempts = maxAttempts, none pending or processing.
C19_LegacyRetryLoop ==
    /\ []LegacySettled
    /\ <>(pc \in {"legacy_done", "legacy_threw"})

\* the loop ended with one batch completed and one failed for good
C19_Witness ==
    /\ pc = "legacy_done"
    /\ ~strict
    /\ \E i, j \in DOMAIN fm.batches :
          /\ fm.batches[i].status = "failed"
          /\ fm.batches[i].attempts = batchMaxAttempts
          /\ fm.batches[j].status = "completed"
          /\ fm.batches[j].attempts = 2

\* ------------------------------------------------------------------------
\* Properties of the formatters
\* ------------------------------------------------------------------------
\* the value is missing or parseFloat makes no number of it
missingOrUnparseable(value) ==
    value.type \in {"null", "undefined", "empty_string", "text", "NaN"}

\* the integer a field without decimals reads as
integerOf(f) == (IF f.neg THEN 0 - 1 ELSE 1) * parseInt(f.int)

\* the number of thousandths a field with three decimals reads as
thousandthsOf(f) ==
    (IF f.neg THEN 0 - 1 ELSE 1) * (parseInt(f.int) * 1000 + parseInt(f.frac))

\* C20: a missing or unparseable value gives the empty field; a tempo gives
\* the nearest integer (127.6 -> "128"); a score gives the nearest number
\* with exactly three decimals (0.8523 -> "0.852"), inside [0,1] or not.
C20_NumericFormatting ==
    /\ (fmtPc \in {"bpm", "mood"} /\ missingOrUnparseable(fmtInput)) =>
          fmtOutput = emptyField
    /\ (fmtPc = "bpm" /\ ~missingOrUnparseable(fmtInput)) =>
          /\ fmtOutput.int # <<>>
          /\ fmtOutput.frac = <<>>
          /\ abs(10000 * integerOf(fmtOutput) - fmtInput.num) <= 5000
          /\ fmtInput.num = 1276000 => fmtOutput = field(FALSE, <<1, 2, 8>>, <<>>)
    /\ (fmtPc = "mood" /\ ~missingOrUnparseable(fmtInput)) =>
          /\ fmtOutput.int # <<>>
          /\ Len(fmtOutput.frac) = 3
          /\ abs(10 * thousandthsOf(fmtOutput) - fmtInput.num) <= 5
          /\ fmtInput.num = 8523 => fmtOutput = field(FALSE, <<0>>, <<8, 5, 2>>)

\* the score 1.0006, above the range, was written as "1.001"
C20_Witness ==
    /\ fmtPc = "mood"
    /\ fmtInput = jsValue("number", 10006)
    /\ fmtOutput = field(FALSE, <<1>>, <<0, 0, 1>>)

\* ------------------------------------------------------------------------
\* Properties of the batch queue of a run
\* ------------------------------------------------------------------------
\* the status changes a batch record may go through
LifecycleSteps ==
    {<<"pending", "processing">>, <<"processing", "completed">>,
     <<"processing", "failed">>, <<"failed", "processing">>}

\* the step leaves batch record a as b in a way the lifecycle allows
lifecycleStep(a, b) ==
    /\ a.status # b.status => <<a.status, b.status>> \in LifecycleSteps
    /\ (a.status = "failed" /\ b.status = "processing") =>
          a.attempts < a.maxAttempts
    /\ a.status = "completed" => b = a
    /\ (a.status = "failed" /\ a.attempts = a.maxAttempts) => b = a

\* C21: in a run a batch goes pending -> processing, processing ->
\* completed, processing -> failed, and failed -> processing only with
\* attempts < maxAttempts; a completed batch and a batch failed at
\* maxAttempts are never touched again.
C21_BatchLifecycle ==
    [][\A i \in DOMAIN fm.batches \cap DOMAIN fm'.batches :
          lifecycleStep(fm.batches[i], fm'.batches[i])]_vars

\* a failed batch was dequeued again beside a completed one, and a batch
\* failed for good is at rest
C21_Witness ==
    /\ pc = "done"
    /\ \E i, j \in DOMAIN fm.batches :
          /\ fm.batches[i].status = "completed"
          /\ fm.batches[j].status = "failed"
          /\ fm.batches[j].attempts = batchMaxAttempts

\* C22: a batch's attempts lie between 0 and maxAttempts and equal the
\* number of times the batch was dequeued in the run, so no batch is handed
\* to the driver more than maxAttempts times.
C22_AttemptBound ==
    \A i \in DOMAIN fm.batches :
        LET b == fm.batches[i]
        IN /\ 0 <= b.attempts
           /\ b.attempts <= b.maxAttempts
           /\ b.attempts = Len(attemptsOf(b.id))

\* a batch has been handed to the driver maxAttempts times
C22_Witness ==
    \E i \in DOMAIN fm.batches :
        /\ fm.batches[i].attempts = batchMaxAttempts
        /\ Len(attemptsOf(fm.batches[i].id)) = batchMaxAttempts
        /\ fm.batches[i].status = "failed"

\* the batches of an array that getNextBatch may return
pendingIn(batches) == {i \in DOMAIN batches : batches[i].status = "pending"}
retryableIn(batches) ==
    {i \in DOMAIN batches : /\ batches[i].status = "failed"
                            /\ batches[i].attempts < batches[i].maxAttempts}

\* the batch of lowest id among those of the set I, 0 for null
lowestId(batches, I) ==
    IF I = {} THEN 0
    ELSE CHOOSE i \in I : \A j \in I : batches[i].id <= batches[j].id

\* C23: getNextBatch returns the pending batch of lowest id if there is
\* one, else the failed batch of lowest id with attempts < maxAttempts,
\* else null; never a completed or processing batch nor a failed one at
\* maxAttempts; and it leaves every batch record as it was.
C23_NextEligibleBatch ==
    [][pc = "query" =>
          /\ batch' = IF pendingIn(fm.batches) # {}
                      THEN lowestId(fm.batches, pendingIn(fm.batches))
                      ELSE lowestId(fm.batches, retryableIn(fm.batches))
          /\ batch' # 0 =>
                \/ fm.batches[batch'].status = "pending"
                \/ /\ fm.batches[batch'].status = "failed"
                   /\ fm.batches[batch'].attempts < batchMaxAttempts
          /\ fm'.batches = fm.batches]_vars

\* getNextBatch passed over a completed batch and a batch failed for good
\* and returned the retryable batch behind them
C23_Witness ==
    /\ pc = "queried"
    /\ Len(fm.batches) = 3
    /\ fm.batches[1].status = "completed"
    /\ fm.batches[2].status = "failed"
    /\ fm.batches[2].attempts = batchMaxAttempts
    /\ fm.batches[3].status = "failed"
    /\ fm.batches[3].attempts = 1
    /\ batch = 3

\* the attempt at position k of the log is the first one of its batch
firstDequeue(k) == \A j \in 1..(k - 1) : attemptLog[j].id # attemptLog[k].id

\* no batch is pending when the attempt at position k starts: every batch
\* was dequeued before
nonePendingAt(k) ==
    \A i \in BatchIndexes :
        \E j \in 1..(k - 1) : attemptLog[j].id = fm.batches[i].id

\* C24: batches are first dequeued in strictly increasing id order; no
\* failed batch is dequeued again while a pending batch remains; and when
\* no batch fails the batches complete in increasing id order.
C24_DequeueOrdering ==
    /\ \A k \in DOMAIN attemptLog :
          IF firstDequeue(k)
          THEN \A j \in 1..(k - 1) : attemptLog[j].id < attemptLog[k].id
          ELSE nonePendingAt(k)
    /\ (\A k \in DOMAIN attemptLog : ~isFailure(attemptLog[k]))
          => \A j, k \in DOMAIN attemptLog :
                j < k => attemptLog[j].id < attemptLog[k].id

\* batch 1 failed, batch 2 was tried next, and only then batch 1 again
C24_Witness ==
    /\ Len(fm.batches) = 2
    /\ Len(attemptLog) >= 3
    /\ attemptLog[1].id = 1 /\ isFailure(attemptLog[1])
    /\ attemptLog[2].id = 2
    /\ attemptLog[3].id = 1

\* two batches completed one after the other without any failure
C24_WitnessNoFailure ==
    /\ Len(attemptLog) = 2
    /\ \A k \in DOMAIN attemptLog : attemptLog[k].outcome = "completed"

\* the number of failed attempts at the end of a log
RECURSIVE trailingFailures(_)
trailingFailures(log) ==
    IF log = <<>> \/ ~isFailure(log[Len(log)]) THEN 0
    ELSE 1 + trailingFailures(SubSeq(log, 1, Len(log) - 1))

\* the attempts that have ended
endedAttempts == SelectSeq(attemptLog, LAMBDA e : e.outcome # "inflight")

C25_WitnessBreaker ==
    /\ stopReason = "breaker"
    /\ \E k \in DOMAIN endedAttempts : ~isFailure(endedAttempts[k])

\* a batch no later attempt can change
finished(b) ==
    \/ b.status = "completed"
    \/ b.status = "failed" /\ b.attempts = b.maxAttempts

loopEnded == pc \in {"done", "threw"}

\* at most B x maxAttempts attempts for B batches; a loop that stopped
\* without the breaker left every batch finished; a loop that stopped left
\* no batch in status processing
attemptsBounded ==
    /\ Len(attemptLog) <= Len(fm.batches) * batchMaxAttempts
    /\ loopEnded /\ stopReason # "breaker"
          => \A i \in BatchIndexes : finished(fm.batches[i])
    /\ loopEnded
          => \A i \in BatchIndexes : fm.batches[i].status # "processing"

C26_WitnessBreaker ==
    /\ pc = "done"
    /\ stopReason = "breaker"
    /\ \E i \in BatchIndexes : ~finished(fm.batches[i])

\* the step ends an attempt with a failed upload or a failed analysis wait
batchFails == ~isFailure(attemptLog[Len(attemptLog)])
              /\ isFailure(attemptLog'[Len(attemptLog)])

\* what a step that fails a batch does
failurePath ==
    /\ fm'.batches[batch].status = "failed"
    /\ fm'.batches[batch].error =
          Str(IF pc = "upload" THEN "Upload failed" ELSE "Analysis failed")
    /\ pc' \in {"loop", "done"}
    /\ pc' = "done" => stopReason' = "breaker"
    /\ batchCsvDir' = batchCsvDir
    /\ workflowStats'.csvDownloads = workflowStats.csvDownloads
    /\ workflowStats'.processedBatches = workflowStats.processedBatches
    /\ workflowStats'.failedBatches = workflowStats.failedBatches + 1
    /\ consecutiveFailures' = consecutiveFailures + 1

\* C27: when the upload of a batch fails (or uploads nothing) or the wait
\* for its analysis fails, the batch is marked failed with the error
\* message and not completed, no export is attempted and no artifact
\* recorded, the attempt counts as a failed batch and adds 1 to the
\* consecutive failures, and nothing is thrown: the loop goes on or stops
\* on the breaker.
C27_BatchFailurePath ==
    [][(pc \in {"upload", "analysis"} /\ batchFails) => failurePath]_vars

\* under --strict an analysis wait failed after an upload that succeeded:
\* the batch is failed and the loop goes on
C27_Witness ==
    /\ strict
    /\ pc = "loop"
    /\ attemptLog # <<>>
    /\ attemptLog[Len(attemptLog)].outcome = "analysis_failed"
    /\ fm.batches[batch].status = "failed"
    /\ fm.batches[batch].error = Str("Analysis failed")
    /\ workflowStats.failedBatches = 1

waitSucceeded == wait.pc = "returned"
waitFailed == wait.pc = "threw"

\* the files of the batch are all analysed and the loader is off
analysisCompleted == ui.left = 0 /\ ~ui.loaderActive

\* C28: waitForAnalysisComplete(timeout) reports failure whenever the
\* timeout elapses before the analysis has completed or an error state is
\* detected on the page, and reports success only when the analysis
\* actually completed.
C28_CompletionWait ==
    /\ wait.exit = "timeout" /\ ~analysisCompleted => waitFailed
    /\ wait.exit = "error" => waitFailed
    /\ waitSucceeded => analysisCompleted

\* the timeout elapsed with a file still being analysed and the wait
\* returned true
C28_TimeoutReportedAsSuccess ==
    /\ wait.exit = "timeout"
    /\ ui.left > 0 /\ ui.loaderActive
    /\ waitSucceeded

\* an error message was detected and the wait returned true
C28_ErrorReportedAsSuccess ==
    /\ wait.exit = "error"
    /\ waitSucceeded

completedAttempts == SelectSeq(attemptLog, LAMBDA e : e.outcome = "completed")

\* C29: when upload and analysis of a batch succeeded but the export is
\* not ready or the export call fails, the batch is still marked
\* completed and counted as processed, no artifact is recorded for it, it
\* is not dequeued again, and the consecutive-failure counter is reset as
\* for any success.
C29_ExportNotReady ==
    driver \in {"export_not_ready", "export_fails"} =>
        /\ batchCsvDir = {}
        /\ workflowStats.csvDownloads = <<>>
        /\ workflowStats.processedBatches = Len(completedAttempts)
        /\ \A k \in DOMAIN attemptLog :
              attemptLog[k].outcome = "completed" =>
                  /\ \E i \in BatchIndexes :
                        /\ fm.batches[i].id = attemptLog[k].id
                        /\ fm.batches[i].status = "completed"
                  /\ \A j \in DOMAIN attemptLog :
                        j > k => attemptLog[j].id # attemptLog[k].id
        /\ (endedAttempts # <<>>
              /\ endedAttempts[Len(endedAttempts)].outcome = "completed")
             => consecutiveFailures = 0

\* after two failures a batch completed without an export: the counter
\* is back at 0 and the run goes on
C29_Witness ==
    /\ driver = "export_not_ready"
    /\ Len(endedAttempts) = 3
    /\ isFailure(endedAttempts[1]) /\ isFailure(endedAttempts[2])
    /\ endedAttempts[3].outcome = "completed"
    /\ consecutiveFailures = 0
    /\ pc = "loop"

\* the same with an export call that fails
C29_WitnessExportFails ==
    /\ driver = "export_fails"
    /\ pc = "done"
    /\ stopReason = "exhausted"
    /\ workflowStats.processedBatches = 2

processingBatches == {i \in BatchIndexes : fm.batches[i].status = "processing"}

\* a driver call (upload, wait for the analysis, export) is in flight
driverCallInFlight == pc \in {"upload", "analysis", "download"}

C31_WitnessReset ==
    /\ driver = "any"
    /\ automation.lastReset = "reset"
    /\ pc = "analysis"
    /\ batch = 2
    /\ automation.uploadsSinceReload = 1

\* the step changes the status of a batch: a mark* call
statusMutation ==
    /\ DOMAIN fm'.batches = DOMAIN fm.batches
    /\ \E i \in DOMAIN fm.batches :
          fm'.batches[i].status # fm.batches[i].status

\* the document holds the whole processing state f: every batch record,
\* the counters and both file-path sets
reflects(doc, f) ==
    /\ DOMAIN doc.batches = DOMAIN f.batches
    /\ \A i \in DOMAIN f.batches :
          /\ doc.batches[i].id = f.batches[i].id
          /\ doc.batches[i].files = f.batches[i].files
          /\ doc.batches[i].status = f.batches[i].status
          /\ doc.batches[i].attempts = f.batches[i].attempts
          /\ doc.batches[i].error = f.batches[i].error
    /\ doc.processingState.totalFiles = f.processingState.totalFiles
    /\ doc.processingState.processedCount = f.processingState.processedCount
    /\ doc.processingState.failedCount = f.processingState.failedCount
    /\ doc.processingState.currentBatch = f.processingState.currentBatch
    /\ doc.processedFiles = f.processedFiles
    /\ doc.failedFiles = f.failedFiles

toLowerCase(col) ==
    IF \E i \in DOMAIN expectedSchema : expectedSchema[i] = col
    THEN LowerCaseSchema[CHOOSE i \in DOMAIN expectedSchema : expectedSchema[i] = col]
    ELSE col

\* every required column is in the header, whatever its case
hasRequiredColumns(header) ==
    \A i \in DOMAIN expectedSchema :
        \E j \in DOMAIN header :
            toLowerCase(header[j]) = toLowerCase(expectedSchema[i])

\* validateBatchFiles put the artifact among the valid files
passedValidation(file) ==
    \E i \in DOMAIN validationResults.validFiles :
        validationResults.validFiles[i].file = basename(file)

\* C34: an artifact passes validation exactly when it is not empty and
\* its header has every required column, compared without regard to case
\* and whatever other columns it has; an artifact with the header the
\* page's export writes passes.
C34_SchemaCheck ==
    mpc = "validated" =>
        \A k \in DOMAIN batchFiles :
            /\ passedValidation(batchFiles[k]) <=>
                   (batchFiles[k].header # <<>> /\ hasRequiredColumns(batchFiles[k].header))
            /\ batchFiles[k].header = CSV_SCHEMA => passedValidation(batchFiles[k])

\* what the code does instead: the names must match letter for letter
C34_CaseSensitiveCheck ==
    mpc = "validated" =>
        \A k \in DOMAIN batchFiles :
            passedValidation(batchFiles[k]) <=>
                \A i \in DOMAIN expectedSchema :
                    \E j \in DOMAIN batchFiles[k].header :
                        batchFiles[k].header[j] = expectedSchema[i]

\* an export of the page was validated and recorded as a schema error
C34_ExportRejected ==
    /\ mpc = "validated"
    /\ Len(batchFiles) = 1
    /\ batchFiles[1].header = CSV_SCHEMA
    /\ Len(validationResults.schemaErrors) = 1
    /\ validationResults.validFiles = <<>>

\* C35: the input directory changes only in a merge with cleanup enabled,
\* in the step that found the written output file verified and returns
\* success; a merge that fails anywhere, or runs with cleanup disabled,
\* leaves every artifact in place.
C35_CleanupOrdering ==
    [][batchDir' # batchDir =>
          /\ cleanupBatchFiles
          /\ mpc = "written"
          /\ outputFile # <<>>
          /\ verifyOutput(outputFile[1], mergedData) = ""
          /\ mergeResult' = <<[success |-> TRUE, error |-> ""]>>]_vars

\* a verified merge with cleanup enabled removed the artifacts
C35_Witness ==
    /\ mpc = "done"
    /\ cleanupBatchFiles
    /\ mergeResult[1].success
    /\ Len(batchFiles) = 2
    /\ batchDir = <<>>

\* a merge with cleanup enabled failed verification and kept the artifacts
C35_WitnessFailure ==
    /\ mpc = "done"
    /\ cleanupBatchFiles
    /\ ~mergeResult[1].success
    /\ outputFile # <<>>
    /\ Len(batchDir) = 2

\* C36: whenever a running upload has no write outstanding, the state
\* file holds the state as the most recent mark* call left it, in
\* whatever order the writes finished.
C36_NoStaleOverwrite ==
    (/\ pc \in {"loop", "upload", "analysis", "download"}
     /\ attemptLog # <<>>
     /\ pendingWrites = {}
     /\ stateFile # <<>>) => reflects(stateFile[1], fm)

\* two saves were outstanding and the older one finished last: the batch
\* has failed, the state file says it is being processed
C36_StaleSnapshot ==
    /\ pc = "loop"
    /\ pendingWrites = {}
    /\ stateFile # <<>>
    /\ fm.batches[1].status = "failed"
    /\ stateFile[1].batches[1].status = "processing"
    /\ stateFile[1].failedFiles = <<>>

\* the state loadState restored has batch i in flight, with attempts left,
\* and the resumed process is about to ask for its first batch
resumedInFlight(i) ==
    /\ pc = "loop"
    /\ run > 1
    /\ loadResult = "loaded"
    /\ attemptLog = <<>>
    /\ stateFile # <<>>
    /\ i \in DOMAIN stateFile[1].batches
    /\ stateFile[1].batches[i].status = "processing"
    /\ stateFile[1].batches[i].attempts < stateFile[1].batches[i].maxAttempts

\* getNextBatch returned batch i to the loop
returned(i) == pc = "upload" /\ batch = i

\* C37: after a resume from a state saved with batch i in flight, the
\* resumed process gets batch i from getNextBatch, unless a signal ends
\* the process or the circuit breaker stops its loop before.
C37_InterruptedBatchResumed ==
    \A i \in 1..MaxResumeFiles :
        resumedInFlight(i) ~>
            (returned(i) \/ pc = "exited" \/ stopReason = "breaker")

\* the resumed process restored batch 1 as being processed, and its loop
\* has ended with that batch untouched
C37_NeverReturned ==
    /\ pc = "done"
    /\ stopReason = "exhausted"
    /\ run > 1
    /\ loadResult = "loaded"
    /\ fm.batches # <<>>
    /\ fm.batches[1].status = "processing"
    /\ fm.batches[1].attempts = 1

\* the merged files written since the workflow started
newOutputs == {outputLog[i].name : i \in DOMAIN outputLog}

\* C38: one call of executeMergeWorkflow writes at most one new merged
\* output file, retries included, and the batchFilesProcessed an attempt
\* returns is never above batchFilesFound.
C38_OneOutputPerWorkflow ==
    /\ Cardinality(newOutputs) <= 1
    /\ mpc = "done" =>
          mergeStats.batchFilesProcessed <= mergeStats.batchFilesFound

\* the first attempt wrote a file that failed verification, the second
\* attempt succeeded: two new files, and twice as many files processed as
\* found
C38_TwoOutputs ==
    /\ mpc = "done"
    /\ mergeRun = 2
    /\ mergeResult[1].success
    /\ Cardinality(newOutputs) = 2
    /\ newOutputs \subseteq outputDir
    /\ mergeStats.batchFilesProcessed = 2 * mergeStats.batchFilesFound

\* C39: waitForAnalysisComplete returns true only when every file of the
\* batch is analysed, never while the page still has files to analyse,
\* however the looks at the loader fall between the page switching it
\* off after one file and on for the next.
C39_NoPrematureCompletion ==
    wait.pc = "returned" => ui.left = 0

\* both looks at the loader fell between two files: the wait returned
\* true as complete with one track listed and one file left
C39_CompleteBetweenFiles ==
    /\ wait.pc = "returned"
    /\ wait.exit = "complete"
    /\ ui.tracks = 1
    /\ ui.left = 1

\* the same before the first file was decoded: no track is listed
C39_CompleteBeforeStart ==
    /\ wait.pc = "returned"
    /\ wait.exit = "complete"
    /\ ui.tracks = 0
    /\ ui.left > 0

\* file i of the upload waits in the queue of the page
queued(i) ==
    \E k \in DOMAIN page.filesQueue : page.filesQueue[k].name = PageFileNames[i]

\* file i is listed among the analysed tracks, once
analysedOnce(i) ==
    Cardinality({k \in DOMAIN page.analysedTracks :
                    page.analysedTracks[k] = PageFileNames[i]}) = 1

\* C40: every file that enters the queue of the page is eventually
\* analysed, once, the tracks are listed in the order of the upload, and
\* isProcessing returns to false, whether the features reach an
\* inference worker before or after its model is loaded.
C40_PageQueueLiveness ==
    /\ \A i \in 1..MaxPageBatch : queued(i) ~> analysedOnce(i)
    /\ page.isProcessing ~> ~page.isProcessing
    /\ [](\A k \in DOMAIN page.analysedTracks :
              page.analysedTracks[k] = PageFileNames[k])

\* the features of the first file reached an inference worker whose model
\* was not loaded: the queue is stalled with a file waiting
C40_StalledQueue ==
    /\ page.step = "stalled"
    /\ page.modelsReady # modelNames
    /\ page.isProcessing
    /\ page.filesQueue # <<>>
    /\ page.analysedTracks = <<>>

\* all the files of an upload were analysed, the models being ready in time
C40_AllAnalysed ==
    /\ page.step = "idle"
    /\ ~page.isProcessing
    /\ Len(page.analysedTracks) = MaxPageBatch

====
